---- MODULE Spec2Model ----
(***************************************************************************)
(* proxypanel: admission controller, connection registry and rule engine   *)
(* (src/proxypanel/src/app.rs, port_range.rs, protocol.rs, geo.rs).        *)
(*                                                                         *)
(* Every handler that runs under one acquisition of the state RwLock is    *)
(* one action; a handler that takes the lock several times is a process    *)
(* with one step per acquisition (and one per bind outside the lock).      *)
(***************************************************************************)
EXTENDS Integers, Sequences, FiniteSets, TLC

(***************************************************************************)
(* Bounds of the model and program constants.                              *)
(***************************************************************************)
MaxTasks == 2          \* concurrent handle_connection tasks
MaxConnId == 3         \* connections accepted while next_conn_id <= MaxConnId
MaxLimit == 2          \* largest rate-limit value loaded or posted
MaxClock == 62         \* the monotonic clock stops advancing here (seconds)
MaxPolicyLog == 1      \* SpecPolicy accepts connections while the history is shorter
MaxOps == 2            \* API calls in flight at a time (SpecRulesConc)
MaxRuleId == 1         \* rules are created while next_rule_id <= MaxRuleId
MaxHandles == 3        \* enable/update are called while a rule has fewer handles
MaxUdpBytes == 2       \* datagrams are relayed while a session's byte count is below

MAX_HISTORY == 10000           \* app.rs:92
RATE_WINDOW_SECS == 60         \* app.rs:1477 Duration::from_secs(60)
UDP_IDLE_TIMEOUT == 60         \* udp_proxy.rs:18
MAX_PORT_RANGE == 1024         \* port_range.rs:3
U16_MAX == 65535               \* port_range.rs:100 parse::<u16>()

IPs == {"10.0.0.1", "10.0.0.2"}
Ports == {443, 7000}
RelayedBytes == {<<3, 5>>}     \* (bytes_up, bytes_down) a finished relay reports
Countries == {"RU"}
ConnRuleIds == {1}             \* rule ids the accept loops hand to handle_connection
TickSteps == {30, 31}          \* the clock advances in steps of 30 s or 31 s
Tasks == 1..MaxTasks
ListenPort == 7000             \* the listen port that receives traffic
UdpPorts == {ListenPort}       \* UDP listen ports that receive datagrams
UdpClients == {[ip |-> "10.0.0.1", port |-> 5000], [ip |-> "10.0.0.1", port |-> 5001]}

NONE == "none"
Absent == 0 - 1                \* None of an Option<u16> / Option<u32>

VARIABLES
    \* policy store (AppState, app.rs:293-313)
    allowlist_enabled, allowlist, allowlist_ports,
    blocklist, port_blocklist,
    geo_blocklist, geo_port_blocklist, geo_db,
    rate_limit,
    \* connection registry
    active, active_by_ip, rate_counters, history, next_conn_id,
    \* Instant::now()
    now,
    \* handle_connection tasks
    conns,
    \* UDP listener tasks, their client maps and session tasks, by listen port
    udp_task, clients, sessions,
    \* the snapshot last handed to persist_state
    last_snapshot,
    \* state.json and the detached save_snapshot tasks, where they are observed
    fs,
    \* rule engine: persisted rules, listener maps, sockets, API calls
    rules, next_rule_id,
    listeners, udp_listeners, lingering, ext_bound, ops,
    \* observation only: successful admissions (ip, time) since
    \* max_new_connections_per_minute last changed
    admit_log

policy_vars == <<allowlist_enabled, allowlist, allowlist_ports, blocklist,
                 port_blocklist, geo_blocklist, geo_port_blocklist, geo_db>>
registry_vars == <<active, active_by_ip, rate_counters, history, next_conn_id>>
rule_vars == <<rules, next_rule_id>>
listener_vars == <<listeners, udp_listeners, lingering, ext_bound>>
engine_vars == <<rule_vars, listener_vars, ops>>
udp_vars == <<udp_task, clients, sessions>>
persist_vars == <<last_snapshot, fs>>
vars == <<policy_vars, rate_limit, registry_vars, now, conns, udp_vars, persist_vars,
          rule_vars, listener_vars, ops, admit_log>>

(***************************************************************************)
(* Helpers on finite maps (HashMap) and sequences (Vec, VecDeque).         *)
(***************************************************************************)
EmptyMap == [k \in {} |-> 0]

MapPut(m, k, v) == [x \in (DOMAIN m) \cup {k} |-> IF x = k THEN v ELSE m[x]]

MapDel(m, k) == [x \in (DOMAIN m) \ {k} |-> m[x]]

MapGet(m, k, dflt) == IF k \in DOMAIN m THEN m[k] ELSE dflt

RECURSIVE SumOver(_, _)
SumOver(m, ks) ==
    IF ks = {} THEN 0
    ELSE LET k == CHOOSE x \in ks : TRUE IN m[k] + SumOver(m, ks \ {k})

MapSum(m) == SumOver(m, DOMAIN m)

Max2(a, b) == IF a >= b THEN a ELSE b

(***************************************************************************)
(* Rejection reasons: check_allow's Err(String).  msg is the fixed text,    *)
(* port and country the values formatted into it (0 and "" when absent).   *)
(***************************************************************************)
Reason(msg, port, country) == [msg |-> msg, port |-> port, country |-> country]

NoReason == Reason("", 0, "")

(* geo::lookup_country on the loaded database: the country of an ip, or    *)
(* NONE when the database has no country for it.                           *)
lookup_country(ip) == IF ip = "10.0.0.1" THEN "RU" ELSE NONE

(***************************************************************************)
(* snapshot_state (app.rs:1652-1702).  The per-port maps are flattened to  *)
(* entry lists sorted by (port, ip): modelled as the set of entries.       *)
(***************************************************************************)
FlattenPortMap(m) == UNION {{[port |-> p, value |-> x] : x \in m[p]} : p \in DOMAIN m}

snapshot_state ==
    [rules |-> rules,
     blocklist |-> blocklist,
     port_blocklist |-> FlattenPortMap(port_blocklist),
     allowlist |-> allowlist,
     allowlist_ports |-> FlattenPortMap(allowlist_ports),
     allowlist_enabled |-> allowlist_enabled,
     geo_blocklist |-> geo_blocklist,
     geo_port_blocklist |-> FlattenPortMap(geo_port_blocklist),
     history |-> history,
     rate_limit |-> rate_limit]

(***************************************************************************)
(* persist_state and save_snapshot (app.rs:1704-1717).  persist_state      *)
(* spawns a detached task per snapshot; the task serializes the snapshot   *)
(* and calls tokio::fs::write, which creates (truncates) the file and      *)
(* writes the bytes with write_all, in one write call or in several.       *)
(* A document is the sequence of its serialized fields in the order of     *)
(* PersistedState, the three numbers of rate_limit being fields of their   *)
(* own; a field is a cell of the file.  The file system is observed only   *)
(* where fs.tracked holds; there all documents have the same size cell by  *)
(* cell (documents of other sizes overlap into unreadable files only).     *)
(***************************************************************************)
Doc(snapshot) ==
    <<snapshot.rules, snapshot.blocklist, snapshot.port_blocklist, snapshot.allowlist,
      snapshot.allowlist_ports, snapshot.allowlist_enabled, snapshot.geo_blocklist,
      snapshot.geo_port_blocklist, snapshot.history,
      snapshot.rate_limit.max_new_connections_per_minute,
      snapshot.rate_limit.max_concurrent_connections_per_ip,
      snapshot.rate_limit.max_concurrent_total>>

DocCells == Len(Doc(snapshot_state))

(* fs.holes are the cells of the file no task has written: the gap a write *)
(* past the end of a shorter file leaves (zero bytes).  fs.passed are the  *)
(* documents of the states the system passed through.                      *)
NoFs == [tracked |-> FALSE, file |-> <<>>, holes |-> {}, writes |-> <<>>, passed |-> {}]

(* the file holds doc, nothing is in flight                                *)
TrackedFs(doc) ==
    [tracked |-> TRUE, file |-> doc, holes |-> {}, writes |-> <<>>, passed |-> {doc}]

(* a spawned save_snapshot task: the document it writes and the cell its   *)
(* next write call starts at (0: the file is not created yet)              *)
SaveTask(doc) == [doc |-> doc, pos |-> 0]

persist_state(snapshot) ==
    /\ last_snapshot' = snapshot
    /\ fs' = IF fs.tracked
             THEN [fs EXCEPT !.writes = Append(@, SaveTask(Doc(snapshot))),
                             !.passed = @ \cup {Doc(snapshot)}]
             ELSE fs

(***************************************************************************)
(* check_allow (app.rs:1416-1488): the admission decision.  It returns     *)
(* Ok or Err(reason) and mutates only the client's rate window, so the     *)
(* result carries the new rate_counters.                                   *)
(***************************************************************************)
Rejected(reason, rc) == [ok |-> FALSE, reason |-> reason, rate_counters |-> rc]

Accepted(rc) == [ok |-> TRUE, reason |-> NoReason, rate_counters |-> rc]

(* mutant of PruneWindow: also drops an entry exactly 60 s old             *)
RECURSIVE PruneWindowEager(_, _)
PruneWindowEager(window, t) ==
    IF window # <<>> /\ t - Head(window) >= RATE_WINDOW_SECS
    THEN PruneWindowEager(Tail(window), t)
    ELSE window

(* while let Some(front) = window.front() { if now - front > 60 s pop }    *)
RECURSIVE PruneWindow(_, _)
PruneWindow(window, t) ==
    IF window # <<>> /\ t - Head(window) > RATE_WINDOW_SECS
    THEN PruneWindow(Tail(window), t)
    ELSE window

(* app.rs:1433-1448: Some(reason) when a geo rule rejects, else NoReason    *)
GeoCheck(client_ip, listen_port) ==
    IF geo_db = NONE THEN NoReason
    ELSE LET country == lookup_country(client_ip) IN
         IF country = NONE THEN NoReason
         ELSE IF listen_port \in DOMAIN geo_port_blocklist
                 /\ country \in geo_port_blocklist[listen_port]
              THEN Reason("Geo blocked for port", listen_port, country)
         ELSE IF country \in geo_blocklist
              THEN Reason("Geo blocked", 0, country)
         ELSE NoReason

(* mutant of TotalCapReached: off by one                                   *)
TotalCapExceeded == Cardinality(DOMAIN active) > rate_limit.max_concurrent_total

(* app.rs:1462                                                             *)
TotalCapReached == Cardinality(DOMAIN active) >= rate_limit.max_concurrent_total

(* app.rs:1466-1467                                                        *)
IpCapReached(client_ip) ==
    MapGet(active_by_ip, client_ip, 0) >= rate_limit.max_concurrent_connections_per_ip

(* app.rs:1421, 1425-1431, 1450, 1454-1460: the list checks                *)
GlobalAllowFails(client_ip) == allowlist_enabled /\ client_ip \notin allowlist

PortAllowFails(client_ip, listen_port) ==
    listen_port \in DOMAIN allowlist_ports /\ client_ip \notin allowlist_ports[listen_port]

GlobalBlockFails(client_ip) == client_ip \in blocklist

PortBlockFails(client_ip, listen_port) ==
    listen_port \in DOMAIN port_blocklist /\ client_ip \in port_blocklist[listen_port]

(* mutant of check_allow: the blocklists are consulted before the          *)
(* allowlists                                                              *)
check_allow_block_first(client_ip, listen_port) ==
    IF GlobalBlockFails(client_ip)
    THEN Rejected(Reason("Blocked by rule", 0, ""), rate_counters)
    ELSE IF PortBlockFails(client_ip, listen_port)
    THEN Rejected(Reason("Blocked for port", listen_port, ""), rate_counters)
    ELSE IF GlobalAllowFails(client_ip)
    THEN Rejected(Reason("Not in allowlist", 0, ""), rate_counters)
    ELSE IF PortAllowFails(client_ip, listen_port)
    THEN Rejected(Reason("Not in allowlist for port", listen_port, ""), rate_counters)
    ELSE IF GeoCheck(client_ip, listen_port) # NoReason
    THEN Rejected(GeoCheck(client_ip, listen_port), rate_counters)
    ELSE IF TotalCapReached
    THEN Rejected(Reason("Too many total connections", 0, ""), rate_counters)
    ELSE IF IpCapReached(client_ip)
    THEN Rejected(Reason("Too many active connections for IP", 0, ""), rate_counters)
    ELSE LET window == PruneWindow(MapGet(rate_counters, client_ip, <<>>), now) IN
         IF Len(window) >= rate_limit.max_new_connections_per_minute
         THEN Rejected(Reason("Rate limit exceeded", 0, ""),
                       MapPut(rate_counters, client_ip, window))
         ELSE Accepted(MapPut(rate_counters, client_ip, Append(window, now)))

(* mutant of check_allow: the timestamp is pushed before the window's      *)
(* length is tested, so a rate-limited attempt is counted too              *)
check_allow_counts_rejected(client_ip, listen_port) ==
    IF GlobalAllowFails(client_ip)
    THEN Rejected(Reason("Not in allowlist", 0, ""), rate_counters)
    ELSE IF PortAllowFails(client_ip, listen_port)
    THEN Rejected(Reason("Not in allowlist for port", listen_port, ""), rate_counters)
    ELSE IF GeoCheck(client_ip, listen_port) # NoReason
    THEN Rejected(GeoCheck(client_ip, listen_port), rate_counters)
    ELSE IF GlobalBlockFails(client_ip)
    THEN Rejected(Reason("Blocked by rule", 0, ""), rate_counters)
    ELSE IF PortBlockFails(client_ip, listen_port)
    THEN Rejected(Reason("Blocked for port", listen_port, ""), rate_counters)
    ELSE IF TotalCapReached
    THEN Rejected(Reason("Too many total connections", 0, ""), rate_counters)
    ELSE IF IpCapReached(client_ip)
    THEN Rejected(Reason("Too many active connections for IP", 0, ""), rate_counters)
    ELSE LET window == PruneWindow(MapGet(rate_counters, client_ip, <<>>), now) IN
         IF Len(window) >= rate_limit.max_new_connections_per_minute
         THEN Rejected(Reason("Rate limit exceeded", 0, ""),
                       MapPut(rate_counters, client_ip, Append(window, now)))
         ELSE Accepted(MapPut(rate_counters, client_ip, Append(window, now)))

check_allow(client_ip, listen_port) ==
    IF GlobalAllowFails(client_ip)
    THEN Rejected(Reason("Not in allowlist", 0, ""), rate_counters)
    ELSE IF PortAllowFails(client_ip, listen_port)
    THEN Rejected(Reason("Not in allowlist for port", listen_port, ""), rate_counters)
    ELSE IF GeoCheck(client_ip, listen_port) # NoReason
    THEN Rejected(GeoCheck(client_ip, listen_port), rate_counters)
    ELSE IF GlobalBlockFails(client_ip)
    THEN Rejected(Reason("Blocked by rule", 0, ""), rate_counters)
    ELSE IF PortBlockFails(client_ip, listen_port)
    THEN Rejected(Reason("Blocked for port", listen_port, ""), rate_counters)
    ELSE IF TotalCapReached
    THEN Rejected(Reason("Too many total connections", 0, ""), rate_counters)
    ELSE IF IpCapReached(client_ip)
    THEN Rejected(Reason("Too many active connections for IP", 0, ""), rate_counters)
    ELSE LET window == PruneWindow(MapGet(rate_counters, client_ip, <<>>), now) IN
         IF Len(window) >= rate_limit.max_new_connections_per_minute
         THEN Rejected(Reason("Rate limit exceeded", 0, ""),
                       MapPut(rate_counters, client_ip, window))
         ELSE Accepted(MapPut(rate_counters, client_ip, Append(window, now)))

(***************************************************************************)
(* register_connection (app.rs:1382-1414), one write-lock acquisition:     *)
(* the values it leaves in the registry and what it returns.               *)
(***************************************************************************)
register_connection(rule_id, client_ip, listen_port) ==
    LET chk == check_allow(client_ip, listen_port) IN
    IF ~chk.ok
    THEN [ok |-> FALSE, reason |-> chk.reason, conn_id |-> 0,
          rate_counters |-> chk.rate_counters,
          active |-> active, active_by_ip |-> active_by_ip,
          next_conn_id |-> next_conn_id]
    ELSE [ok |-> TRUE, reason |-> NoReason, conn_id |-> next_conn_id,
          rate_counters |-> chk.rate_counters,
          active |-> MapPut(active, next_conn_id,
                            [conn_id |-> next_conn_id, rule_id |-> rule_id,
                             client_ip |-> client_ip, listen_port |-> listen_port,
                             bytes_transferred |-> 0]),
          active_by_ip |-> MapPut(active_by_ip, client_ip,
                                  MapGet(active_by_ip, client_ip, 0) + 1),
          next_conn_id |-> next_conn_id + 1]

(* mutant of trim_history: the entries over the cap are dropped at the end *)
trim_history_keep_oldest(h) ==
    IF Len(h) > MAX_HISTORY THEN SubSeq(h, 1, MAX_HISTORY) ELSE h

(* trim_history (app.rs:1571-1576)                                         *)
trim_history(h) ==
    IF Len(h) > MAX_HISTORY THEN SubSeq(h, Len(h) - MAX_HISTORY + 1, Len(h)) ELSE h

(***************************************************************************)
(* record_blocked (app.rs:1494-1521): one write-lock acquisition, then the *)
(* snapshot built under it goes to persist_state.                          *)
(***************************************************************************)
(* mutant of record_blocked: the rejection reason is not stored            *)
record_blocked_no_reason(rule_id, listen_port, client_ip, reason) ==
    /\ next_conn_id' = next_conn_id + 1
    /\ history' = trim_history(Append(history,
                      [id |-> next_conn_id, rule_id |-> rule_id,
                       client_ip |-> client_ip, listen_port |-> listen_port,
                       bytes_up |-> 0, bytes_down |-> 0,
                       blocked |-> TRUE, reason |-> NoReason]))
    /\ UNCHANGED <<active, active_by_ip, rate_counters>>
    /\ UNCHANGED <<policy_vars, rate_limit, rule_vars>>
    /\ persist_state(snapshot_state')

(* mutant of record_blocked: the entry takes the counter's value but the   *)
(* counter is not advanced                                                 *)
record_blocked_keep_counter(rule_id, listen_port, client_ip, reason) ==
    /\ next_conn_id' = next_conn_id
    /\ history' = trim_history(Append(history,
                      [id |-> next_conn_id, rule_id |-> rule_id,
                       client_ip |-> client_ip, listen_port |-> listen_port,
                       bytes_up |-> 0, bytes_down |-> 0,
                       blocked |-> TRUE, reason |-> reason]))
    /\ UNCHANGED <<active, active_by_ip, rate_counters>>
    /\ UNCHANGED <<policy_vars, rate_limit, rule_vars>>
    /\ persist_state(snapshot_state')

record_blocked(rule_id, listen_port, client_ip, reason) ==
    /\ next_conn_id' = next_conn_id + 1
    /\ history' = trim_history(Append(history,
                      [id |-> next_conn_id, rule_id |-> rule_id,
                       client_ip |-> client_ip, listen_port |-> listen_port,
                       bytes_up |-> 0, bytes_down |-> 0,
                       blocked |-> TRUE, reason |-> reason]))
    /\ UNCHANGED <<active, active_by_ip, rate_counters>>
    /\ UNCHANGED <<policy_vars, rate_limit, rule_vars>>
    /\ persist_state(snapshot_state')

(***************************************************************************)
(* record_connection_end (app.rs:1523-1557).                               *)
(***************************************************************************)
(* mutant of DecrementByIp: the key is kept when the count reaches zero   *)
DecrementByIpKeepKey(by_ip, ip) ==
    IF ip \notin DOMAIN by_ip THEN by_ip
    ELSE MapPut(by_ip, ip, Max2(by_ip[ip] - 1, 0))

DecrementByIp(by_ip, ip) ==
    IF ip \notin DOMAIN by_ip THEN by_ip
    ELSE LET c == Max2(by_ip[ip] - 1, 0) IN
         IF c = 0 THEN MapDel(by_ip, ip) ELSE MapPut(by_ip, ip, c)

(* mutant of record_connection_end: an entry is appended also for an id    *)
(* that has no active record                                               *)
record_connection_end_always_logs(conn_id, bytes_up, bytes_down, reason) ==
    /\ IF conn_id \in DOMAIN active
       THEN /\ active' = MapDel(active, conn_id)
            /\ active_by_ip' = DecrementByIp(active_by_ip, active[conn_id].client_ip)
            /\ history' = trim_history(Append(history,
                              [id |-> conn_id, rule_id |-> active[conn_id].rule_id,
                               client_ip |-> active[conn_id].client_ip,
                               listen_port |-> active[conn_id].listen_port,
                               bytes_up |-> bytes_up, bytes_down |-> bytes_down,
                               blocked |-> FALSE, reason |-> reason]))
       ELSE /\ UNCHANGED <<active, active_by_ip>>
            /\ history' = trim_history(Append(history,
                              [id |-> conn_id, rule_id |-> 0, client_ip |-> "",
                               listen_port |-> 0,
                               bytes_up |-> bytes_up, bytes_down |-> bytes_down,
                               blocked |-> FALSE, reason |-> reason]))
    /\ UNCHANGED <<rate_counters, next_conn_id>>
    /\ UNCHANGED <<policy_vars, rate_limit, rule_vars>>
    /\ persist_state(snapshot_state')

record_connection_end(conn_id, bytes_up, bytes_down, reason) ==
    /\ IF conn_id \in DOMAIN active
       THEN /\ active' = MapDel(active, conn_id)
            /\ active_by_ip' = DecrementByIp(active_by_ip, active[conn_id].client_ip)
            /\ history' = trim_history(Append(history,
                              [id |-> conn_id, rule_id |-> active[conn_id].rule_id,
                               client_ip |-> active[conn_id].client_ip,
                               listen_port |-> active[conn_id].listen_port,
                               bytes_up |-> bytes_up, bytes_down |-> bytes_down,
                               blocked |-> FALSE, reason |-> reason]))
       ELSE UNCHANGED <<active, active_by_ip, history>>
    /\ UNCHANGED <<rate_counters, next_conn_id>>
    /\ UNCHANGED <<policy_vars, rate_limit, rule_vars>>
    /\ persist_state(snapshot_state')

(***************************************************************************)
(* handle_connection (app.rs:1331-1380), one task per accepted TCP         *)
(* connection: register, then record_blocked on rejection, or the relay    *)
(* and record_connection_end.                                              *)
(***************************************************************************)
IdleConn == [pc |-> "idle", rule_id |-> 0, client_ip |-> "", listen_port |-> 0,
             conn_id |-> 0, reason |-> NoReason,
             up |-> "", down |-> "", bytes_up |-> 0, bytes_down |-> 0]

(* the first await of handle_connection: register_connection               *)
(* (app.rs:1339-1346)                                                      *)
HandleConnectionAdmission(t, rule_id, client_ip, listen_port) ==
    /\ conns[t].pc = "idle"
    /\ \A u \in Tasks : u < t => conns[u].pc # "idle"   \* tasks are interchangeable
    /\ LET r == register_connection(rule_id, client_ip, listen_port) IN
       /\ rate_counters' = r.rate_counters
       /\ active' = r.active
       /\ active_by_ip' = r.active_by_ip
       /\ next_conn_id' = r.next_conn_id
       /\ conns' = [conns EXCEPT ![t] =
                       [IdleConn EXCEPT
                           !.pc = IF r.ok THEN "admitted" ELSE "rejected",
                           !.rule_id = rule_id, !.client_ip = client_ip,
                           !.listen_port = listen_port, !.conn_id = r.conn_id,
                           !.reason = r.reason]]
    /\ UNCHANGED <<history, policy_vars, rate_limit, now, persist_vars, engine_vars,
                   udp_vars>>

(* connections are accepted while next_conn_id <= MaxConnId                *)
HandleConnectionRegister(t, rule_id, client_ip, listen_port) ==
    /\ next_conn_id <= MaxConnId
    /\ HandleConnectionAdmission(t, rule_id, client_ip, listen_port)

(* the accept loop hands a connection to a task (app.rs:1245-1255)         *)
Accept(t, rule_id, client_ip, listen_port) ==
    /\ HandleConnectionRegister(t, rule_id, client_ip, listen_port)
    /\ UNCHANGED admit_log

(* the same, with the admission observed in admit_log                      *)
AcceptLogged(t, rule_id, client_ip, listen_port) ==
    /\ HandleConnectionRegister(t, rule_id, client_ip, listen_port)
    /\ admit_log' = IF conns'[t].pc = "admitted"
                    THEN Append(admit_log, [ip |-> client_ip, at |-> now])
                    ELSE admit_log

HandleConnectionBlocked(t) ==
    /\ conns[t].pc = "rejected"
    /\ record_blocked(conns[t].rule_id, conns[t].listen_port, conns[t].client_ip,
                      conns[t].reason)
    /\ conns' = [conns EXCEPT ![t] = IdleConn]
    /\ UNCHANGED <<now, listener_vars, ops, admit_log, udp_vars>>

(* mutant of HandleConnectionConnectFailed: the task returns without       *)
(* finalizing the connection                                               *)
HandleConnectionConnectFailedSilent(t) ==
    /\ conns[t].pc = "admitted"
    /\ conns' = [conns EXCEPT ![t] = IdleConn]
    /\ UNCHANGED <<policy_vars, rate_limit, registry_vars, persist_vars, now,
                   engine_vars, admit_log, udp_vars>>

(* TcpStream::connect fails (app.rs:1348-1361)                             *)
HandleConnectionConnectFailed(t) ==
    /\ conns[t].pc = "admitted"
    /\ record_connection_end(conns[t].conn_id, 0, 0,
                             Reason("Target connect failed", 0, ""))
    /\ conns' = [conns EXCEPT ![t] = IdleConn]
    /\ UNCHANGED <<now, listener_vars, ops, admit_log, udp_vars>>

(* the relay returns Ok((bytes_up, bytes_down)) (app.rs:1363-1367)         *)
HandleConnectionRelayed(t, bytes_up, bytes_down) ==
    /\ conns[t].pc = "admitted"
    /\ record_connection_end(conns[t].conn_id, bytes_up, bytes_down, NoReason)
    /\ conns' = [conns EXCEPT ![t] = IdleConn]
    /\ UNCHANGED <<now, listener_vars, ops, admit_log, udp_vars>>

(***************************************************************************)
(* The relay, copy_bidirectional_with_tracking (app.rs:1578-1650): two     *)
(* pumps, client_to_server (up) and server_to_client (down), run under     *)
(* tokio::join!.  A pump is "running" until its read returns Ok(0) ("eof") *)
(* or its read or write fails ("error"); either way its loop breaks and    *)
(* the pump yields the bytes it moved.  join! completes when both pumps    *)
(* have ended and the function returns Ok((bytes_up, bytes_down)): no path *)
(* returns Err, so the Err arm of handle_connection (app.rs:1368-1377) is  *)
(* never taken.                                                            *)
(***************************************************************************)
PumpEnds == {"eof", "error"}

(* TcpStream::connect succeeds and the relay starts (app.rs:1348-1363)     *)
HandleConnectionConnected(t) ==
    /\ conns[t].pc = "admitted"
    /\ conns' = [conns EXCEPT ![t].pc = "relay", ![t].up = "running",
                              ![t].down = "running"]
    /\ UNCHANGED <<policy_vars, rate_limit, registry_vars, now, persist_vars,
                   engine_vars, admit_log, udp_vars>>

(* client_to_server ends: ri.read gives Ok(0) or Err, or wo.write_all      *)
(* fails (app.rs:1596-1614)                                                *)
ClientToServerEnds(t, how, total_bytes) ==
    /\ conns[t].pc = "relay"
    /\ conns[t].up = "running"
    /\ conns' = [conns EXCEPT ![t].up = how, ![t].bytes_up = total_bytes]
    /\ UNCHANGED <<policy_vars, rate_limit, registry_vars, now, persist_vars,
                   engine_vars, admit_log, udp_vars>>

(* server_to_client ends (app.rs:1626-1644)                                *)
ServerToClientEnds(t, how, total_bytes) ==
    /\ conns[t].pc = "relay"
    /\ conns[t].down = "running"
    /\ conns' = [conns EXCEPT ![t].down = how, ![t].bytes_down = total_bytes]
    /\ UNCHANGED <<policy_vars, rate_limit, registry_vars, now, persist_vars,
                   engine_vars, admit_log, udp_vars>>

(* update_connection_bytes (app.rs:1559-1569), called by a running pump    *)
(* mutant of update_connection_bytes: a record is made for an id that has  *)
(* none                                                                    *)
update_connection_bytes_upsert(conn_id, bytes_transferred) ==
    /\ active' = IF conn_id \in DOMAIN active
                 THEN [active EXCEPT ![conn_id].bytes_transferred = bytes_transferred]
                 ELSE MapPut(active, conn_id,
                             [conn_id |-> conn_id, rule_id |-> 0, client_ip |-> "",
                              listen_port |-> 0,
                              bytes_transferred |-> bytes_transferred])
    /\ UNCHANGED <<active_by_ip, rate_counters, history, next_conn_id>>

update_connection_bytes(conn_id, bytes_transferred) ==
    /\ active' = IF conn_id \in DOMAIN active
                 THEN [active EXCEPT ![conn_id].bytes_transferred = bytes_transferred]
                 ELSE active
    /\ UNCHANGED <<active_by_ip, rate_counters, history, next_conn_id>>

PumpUpdatesBytes(t, total_bytes) ==
    /\ conns[t].pc = "relay"
    /\ conns[t].up = "running" \/ conns[t].down = "running"
    /\ update_connection_bytes(conns[t].conn_id, total_bytes)
    /\ UNCHANGED <<policy_vars, rate_limit, now, conns, persist_vars,
                   engine_vars, admit_log, udp_vars>>

(* tokio::join! completes, the relay returns Ok and handle_connection      *)
(* records the end with reason None (app.rs:1648-1649, 1364-1367)          *)
HandleConnectionJoined(t) ==
    /\ conns[t].pc = "relay"
    /\ conns[t].up \in PumpEnds
    /\ conns[t].down \in PumpEnds
    /\ record_connection_end(conns[t].conn_id, conns[t].bytes_up, conns[t].bytes_down,
                             NoReason)
    /\ conns' = [conns EXCEPT ![t] = IdleConn]
    /\ UNCHANGED <<now, listener_vars, ops, admit_log, udp_vars>>

(* the monotonic clock read by Instant::now()                              *)
Tick(d) ==
    /\ now + d <= MaxClock
    /\ now' = now + d
    /\ UNCHANGED <<policy_vars, rate_limit, registry_vars, conns, persist_vars,
                   engine_vars, admit_log, udp_vars>>

(***************************************************************************)
(* update_rate_limit (app.rs:1076-1096).  A field of the request is        *)
(* Absent or a u32.                                                        *)
(***************************************************************************)

OptLimits == {Absent} \cup (0..MaxLimit)

(* requests posted to /api/rate-limit: at most one field present           *)
RateLimitRequests ==
    {q \in OptLimits \X OptLimits \X OptLimits :
        Cardinality({i \in 1..3 : q[i] # Absent}) <= 1}

update_rate_limit(per_minute, per_ip, total) ==
    /\ rate_limit' =
          [max_new_connections_per_minute |->
               IF per_minute = Absent THEN rate_limit.max_new_connections_per_minute
               ELSE Max2(per_minute, 1),
           max_concurrent_connections_per_ip |->
               IF per_ip = Absent THEN rate_limit.max_concurrent_connections_per_ip
               ELSE Max2(per_ip, 1),
           max_concurrent_total |->
               IF total = Absent THEN rate_limit.max_concurrent_total
               ELSE Max2(total, 1)]
    /\ UNCHANGED <<policy_vars, registry_vars, rule_vars>>
    /\ persist_state(snapshot_state')

UpdateRateLimit(per_minute, per_ip, total) ==
    /\ update_rate_limit(per_minute, per_ip, total)
    /\ UNCHANGED <<now, conns, listener_vars, ops, admit_log, udp_vars>>

(***************************************************************************)
(* Policy store handlers.  port is Absent (no port given) or a u16; each   *)
(* handler mutates under the write lock and hands the snapshot to          *)
(* persist_state.                                                          *)
(***************************************************************************)
PortMapAdd(m, port, x) == MapPut(m, port, MapGet(m, port, {}) \cup {x})

(* mutant of PortMapRemove: the emptied set stays in the map               *)
PortMapRemoveKeepEmpty(m, port, x) ==
    IF port \notin DOMAIN m THEN m ELSE MapPut(m, port, m[port] \ {x})

(* remove x from the port's set; drop the key when the set becomes empty   *)
PortMapRemove(m, port, x) ==
    IF port \notin DOMAIN m THEN m
    ELSE IF m[port] \ {x} = {} THEN MapDel(m, port)
    ELSE MapPut(m, port, m[port] \ {x})

PolicyFrame ==
    /\ UNCHANGED <<rate_limit, registry_vars, rule_vars>>
    /\ persist_state(snapshot_state')
    /\ UNCHANGED <<now, conns, listener_vars, ops, admit_log, udp_vars>>

(* add_allow (app.rs:982-1025)                                             *)
add_allow(ip, port) ==
    /\ port # 0
    /\ IF port = Absent
       THEN allowlist' = allowlist \cup {ip} /\ UNCHANGED allowlist_ports
       ELSE allowlist_ports' = PortMapAdd(allowlist_ports, port, ip)
            /\ UNCHANGED allowlist
    /\ UNCHANGED <<allowlist_enabled, blocklist, port_blocklist, geo_blocklist,
                   geo_port_blocklist, geo_db>>
    /\ PolicyFrame

(* remove_allow (app.rs:1027-1049)                                         *)
remove_allow(ip, port) ==
    /\ IF port = Absent
       THEN allowlist' = allowlist \ {ip} /\ UNCHANGED allowlist_ports
       ELSE allowlist_ports' = PortMapRemove(allowlist_ports, port, ip)
            /\ UNCHANGED allowlist
    /\ UNCHANGED <<allowlist_enabled, blocklist, port_blocklist, geo_blocklist,
                   geo_port_blocklist, geo_db>>
    /\ PolicyFrame

(* add_block (app.rs:778-821)                                              *)
add_block(ip, port) ==
    /\ port # 0
    /\ IF port = Absent
       THEN blocklist' = blocklist \cup {ip} /\ UNCHANGED port_blocklist
       ELSE port_blocklist' = PortMapAdd(port_blocklist, port, ip)
            /\ UNCHANGED blocklist
    /\ UNCHANGED <<allowlist_enabled, allowlist, allowlist_ports, geo_blocklist,
                   geo_port_blocklist, geo_db>>
    /\ PolicyFrame

(* remove_block (app.rs:823-845)                                           *)
remove_block(ip, port) ==
    /\ IF port = Absent
       THEN blocklist' = blocklist \ {ip} /\ UNCHANGED port_blocklist
       ELSE port_blocklist' = PortMapRemove(port_blocklist, port, ip)
            /\ UNCHANGED blocklist
    /\ UNCHANGED <<allowlist_enabled, allowlist, allowlist_ports, geo_blocklist,
                   geo_port_blocklist, geo_db>>
    /\ PolicyFrame

(* add_geo_block (app.rs:874-919); country is the normalized code          *)
add_geo_block(country, port) ==
    /\ port # 0
    /\ IF port = Absent
       THEN geo_blocklist' = geo_blocklist \cup {country}
            /\ UNCHANGED geo_port_blocklist
       ELSE geo_port_blocklist' = PortMapAdd(geo_port_blocklist, port, country)
            /\ UNCHANGED geo_blocklist
    /\ UNCHANGED <<allowlist_enabled, allowlist, allowlist_ports, blocklist,
                   port_blocklist, geo_db>>
    /\ PolicyFrame

(* remove_geo_block (app.rs:921-953)                                       *)
remove_geo_block(country, port) ==
    /\ IF port = Absent
       THEN geo_blocklist' = geo_blocklist \ {country}
            /\ UNCHANGED geo_port_blocklist
       ELSE geo_port_blocklist' = PortMapRemove(geo_port_blocklist, port, country)
            /\ UNCHANGED geo_blocklist
    /\ UNCHANGED <<allowlist_enabled, allowlist, allowlist_ports, blocklist,
                   port_blocklist, geo_db>>
    /\ PolicyFrame

(* update_allowlist_mode (app.rs:1058-1069)                                *)
update_allowlist_mode(enabled) ==
    /\ allowlist_enabled' = enabled
    /\ UNCHANGED <<allowlist, allowlist_ports, blocklist, port_blocklist,
                   geo_blocklist, geo_port_blocklist, geo_db>>
    /\ PolicyFrame

(* refresh_geo_db (geo_update.rs:56-62): a database file appeared          *)
refresh_geo_db ==
    /\ geo_db = NONE
    /\ geo_db' = "loaded"
    /\ UNCHANGED <<allowlist_enabled, allowlist, allowlist_ports, blocklist,
                   port_blocklist, geo_blocklist, geo_port_blocklist>>
    /\ UNCHANGED <<rate_limit, registry_vars, rule_vars, persist_vars>>
    /\ UNCHANGED <<now, conns, listener_vars, ops, admit_log, udp_vars>>

(***************************************************************************)
(* Rule engine.                                                            *)
(*                                                                         *)
(* protocol.rs:17-25                                                       *)
(***************************************************************************)
Protocols == {"tcp", "udp", "both"}

uses_tcp(protocol) == protocol \in {"tcp", "both"}

uses_udp(protocol) == protocol \in {"udp", "both"}

(***************************************************************************)
(* Address specs "host:port" and "host:start-end".  A spec is kept as its  *)
(* host and its port token: range tells whether the token holds a '-', lo  *)
(* and hi are the decimal numbers written in it (hi = lo for a single      *)
(* port).  A number above U16_MAX stands for any text u16 parsing refuses. *)
(***************************************************************************)
Addr(host, lo, hi, range) == [host |-> host, lo |-> lo, hi |-> hi, range |-> range]

BlankAddr == Addr("", 0, 0, FALSE)

ParseOk(ports) == [ok |-> TRUE, err |-> "", ports |-> ports]

ParseErr(err) == [ok |-> FALSE, err |-> err, ports |-> <<>>]

(* port_range.rs:99-102: raw.trim().parse::<u16>()                        *)
parse_port_value(n) == n \in 0..U16_MAX

(* port_range.rs:78-97                                                     *)
parse_ports(addr) ==
    IF addr.range
    THEN IF ~parse_port_value(addr.lo) \/ ~parse_port_value(addr.hi)
         THEN ParseErr("invalid port number")
         ELSE IF addr.lo = 0 \/ addr.hi = 0
         THEN ParseErr("Port range cannot include 0")
         ELSE IF addr.lo > addr.hi
         THEN ParseErr("Port range start is greater than end")
         ELSE IF (addr.hi - addr.lo) + 1 > MAX_PORT_RANGE
         THEN ParseErr("Port range too large")
         ELSE ParseOk([i \in 1..((addr.hi - addr.lo) + 1) |-> addr.lo + i - 1])
    ELSE IF ~parse_port_value(addr.lo)
         THEN ParseErr("invalid port number")
         ELSE ParseOk(<<addr.lo>>)

(* port_range.rs:49-76: only the empty address is modelled among the       *)
(* malformed "host:port" splits                                            *)
split_host_port(addr) == addr # BlankAddr

ExpandOk(targets) == [ok |-> TRUE, err |-> "", targets |-> targets]

ExpandErr(err) == [ok |-> FALSE, err |-> err, targets |-> <<>>]

ListenTarget(listen_host, listen_port, target_host, target_port) ==
    [listen_host |-> listen_host, listen_port |-> listen_port,
     target_host |-> target_host, target_port |-> target_port]

(* mutant of expand_listen_targets: a target range is not paired by        *)
(* position and its cardinality is not compared                            *)
expand_listen_targets_first_target(listen_addr, target_addr) ==
    IF ~split_host_port(listen_addr) THEN ExpandErr("Address is empty")
    ELSE IF ~parse_ports(listen_addr).ok THEN ExpandErr(parse_ports(listen_addr).err)
    ELSE IF ~split_host_port(target_addr) THEN ExpandErr("Address is empty")
    ELSE IF ~parse_ports(target_addr).ok THEN ExpandErr(parse_ports(target_addr).err)
    ELSE LET listen_ports == parse_ports(listen_addr).ports
             target_ports == parse_ports(target_addr).ports
         IN ExpandOk([i \in 1..Len(listen_ports) |->
                ListenTarget(listen_addr.host, listen_ports[i],
                             target_addr.host, target_ports[1])])

(* port_range.rs:12-47                                                     *)
expand_listen_targets(listen_addr, target_addr) ==
    IF ~split_host_port(listen_addr) THEN ExpandErr("Address is empty")
    ELSE IF ~parse_ports(listen_addr).ok THEN ExpandErr(parse_ports(listen_addr).err)
    ELSE IF ~split_host_port(target_addr) THEN ExpandErr("Address is empty")
    ELSE IF ~parse_ports(target_addr).ok THEN ExpandErr(parse_ports(target_addr).err)
    ELSE LET listen_ports == parse_ports(listen_addr).ports
             target_ports == parse_ports(target_addr).ports
         IN IF Len(target_ports) = 1
            THEN ExpandOk([i \in 1..Len(listen_ports) |->
                     ListenTarget(listen_addr.host, listen_ports[i],
                                  target_addr.host, target_ports[1])])
            ELSE IF Len(target_ports) = Len(listen_ports)
            THEN ExpandOk([i \in 1..Len(listen_ports) |->
                     ListenTarget(listen_addr.host, listen_ports[i],
                                  target_addr.host, target_ports[i])])
            ELSE ExpandErr("Port range mismatch")

(***************************************************************************)
(* ProxyRule (app.rs:173-183).  created_at, a timestamp no code reads, is  *)
(* left out.                                                               *)
(***************************************************************************)
ProxyRule(id, listen_addr, target_addr, enabled, protocol) ==
    [id |-> id, listen_addr |-> listen_addr, target_addr |-> target_addr,
     enabled |-> enabled, protocol |-> protocol]

NoRule == ProxyRule(0, BlankAddr, BlankAddr, FALSE, "tcp")

(* rules.iter().position(|rule| rule.id == id): 0 stands for None          *)
RulePosition(rs, id) ==
    IF \E i \in DOMAIN rs : rs[i].id = id
    THEN CHOOSE i \in DOMAIN rs : rs[i].id = id /\ \A j \in DOMAIN rs : rs[j].id = id => i <= j
    ELSE 0

(* Vec::remove(index)                                                      *)
SeqRemove(s, index) == [i \in 1..(Len(s) - 1) |-> IF i < index THEN s[i] ELSE s[i + 1]]

(***************************************************************************)
(* Sockets.  A ListenerHandle is kept as the port it was asked to bind.    *)
(* All listen hosts of the model are the wildcard host, so two binds       *)
(* collide when their ports are equal; port 0 asks the OS for a free       *)
(* ephemeral port and never collides.  A port stays bound by the handles   *)
(* registered in the maps, by a bind whose handle is not yet pushed        *)
(* (held), by another process (ext_bound) and by a listener task that was  *)
(* aborted but not yet dropped by the runtime (lingering).                 *)
(***************************************************************************)
ListenerHandle(port) == [port |-> port]

HandlePorts(m) == UNION {{m[id][i].port : i \in DOMAIN m[id]} : id \in DOMAIN m}

Sock(proto, port) == [proto |-> proto, port |-> port]

HeldSocks == {ops[s].held : s \in DOMAIN ops} \ {Sock("", Absent)}

(* a UDP session task keeps a clone of the listener's Arc<UdpSocket>       *)
(* (udp_proxy.rs:112, 146), so the socket stays open while a session runs  *)
SessionSocks == {Sock("udp", p) : p \in {q \in UdpPorts : DOMAIN sessions[q] # {}}}

BoundSocks ==
    {Sock("tcp", p) : p \in HandlePorts(listeners)}
      \cup {Sock("udp", p) : p \in HandlePorts(udp_listeners)}
      \cup HeldSocks \cup lingering \cup SessionSocks
      \cup {Sock(proto, p) : proto \in {"tcp", "udp"}, p \in ext_bound}

(* TcpListener::bind / UdpSocket::bind succeed                             *)
CanBind(proto, port) == port = 0 \/ Sock(proto, port) \notin BoundSocks

(* handle.shutdown.cancel(); handle.task.abort() for each handle           *)
Aborted(proto, handles) ==
    {Sock(proto, handles[i].port) : i \in DOMAIN handles} \ {Sock(proto, 0)}

(***************************************************************************)
(* The UDP listener task of a port (udp_proxy.rs:41-139), the client map   *)
(* it shares with its session tasks, and the session tasks                 *)
(* (udp_proxy.rs:152-200).  pc is the await the task is suspended at:      *)
(* "select" (the loop's select!), "register" (register_connection),        *)
(* "rejected" (record_blocked), "upstream" (the ephemeral bind and the     *)
(* connect) and "forward" (the client-map update and the send).  shutdown  *)
(* is the task's view of the CancellationToken: stop_udp_listener cancels  *)
(* the token and aborts the listener task with no await in between.        *)
(***************************************************************************)
NoClient == [ip |-> "", port |-> 0]

NoUdpTask == [pc |-> "none", rule_id |-> 0, client_addr |-> NoClient, conn_id |-> 0,
              reason |-> NoReason, shutdown |-> FALSE]

(* tokio::spawn of the listener loop after UdpSocket::bind (udp_proxy.rs:36-45) *)
SpawnedUdpTask(rule_id) == [NoUdpTask EXCEPT !.pc = "select", !.rule_id = rule_id]

(* ClientEntry (udp_proxy.rs:21-27); the upstream socket is left out       *)
ClientEntry(conn_id, last_seen) ==
    [conn_id |-> conn_id, last_seen |-> last_seen, bytes_up |-> 0, bytes_down |-> 0]

(* a session task: "select" in its loop, "remove" once the loop broke;     *)
(* broke tells which branch broke it                                       *)
Session(shutdown) == [pc |-> "select", broke |-> "", shutdown |-> shutdown]

(* handle.shutdown.cancel(); handle.task.abort() on the listeners of the   *)
(* given ports (app.rs:1312-1317): a task suspended in select! ends there; *)
(* a task in the middle of an admission is marked and is either dropped at *)
(* its await or finishes the poll it is in                                 *)
CancelledTasks(ports) ==
    [p \in UdpPorts |->
        IF p \notin ports \/ udp_task[p].pc = "none" THEN udp_task[p]
        ELSE IF udp_task[p].pc = "select" THEN NoUdpTask
        ELSE [udp_task[p] EXCEPT !.shutdown = TRUE]]

CancelledSessions(ports) ==
    [p \in UdpPorts |->
        IF p \notin ports THEN sessions[p]
        ELSE [a \in DOMAIN sessions[p] |-> [sessions[p][a] EXCEPT !.shutdown = TRUE]]]

(***************************************************************************)
(* API calls and the startup loop as processes.  A call occupies a slot of *)
(* ops from its first step until its response is delivered; pc is the next *)
(* lock acquisition or bind of the handler, the other fields its locals.   *)
(* pre and asked only record what the call found and what it asked for.    *)
(***************************************************************************)
OpSlots == 1..MaxOps

NoSock == Sock("", Absent)

Some(x) == {x}

None == {}

unwrap_or(opt, dflt) == IF opt = None THEN dflt ELSE CHOOSE x \in opt : TRUE

AddrPair(listen_addr, target_addr) == [listen_addr |-> listen_addr, target_addr |-> target_addr]

PreState ==
    [rules |-> rules, next_rule_id |-> next_rule_id, snapshot |-> last_snapshot,
     listeners |-> listeners, udp_listeners |-> udp_listeners]

NoPre ==
    [rules |-> <<>>, next_rule_id |-> 0, snapshot |-> [rules |-> <<>>],
     listeners |-> EmptyMap, udp_listeners |-> EmptyMap]

IdleOp ==
    [pc |-> "idle", kind |-> "", id |-> 0, rule |-> NoRule, was_enabled |-> FALSE,
     targets |-> <<>>, idx |-> 0, held |-> NoSock, after_stop |-> "",
     start_failed |-> FALSE, result |-> "", queue |-> <<>>, failed |-> {},
     asked |-> AddrPair(BlankAddr, BlankAddr), pre |-> NoPre]

InFlight == {s \in OpSlots : ops[s].pc # "idle"}

(* a call enters slot s: the router serves calls once the startup loop is  *)
(* over, and at most limit calls are open at a time (a call stays open     *)
(* until its response is delivered)                                        *)
Call(s, limit) ==
    /\ ops[s].pc = "idle"
    /\ \A u \in OpSlots : u < s => ops[u].pc # "idle"
    /\ Cardinality(InFlight) < limit
    /\ \A u \in OpSlots : ops[u].kind # "startup"

(* enable and update are called while the rule has fewer handles           *)
HandleRoom(id) ==
    /\ Len(MapGet(listeners, id, <<>>)) < MaxHandles
    /\ Len(MapGet(udp_listeners, id, <<>>)) < MaxHandles

Returned(op, result) == [op EXCEPT !.pc = "returned", !.result = result]

EngineFrame == UNCHANGED <<policy_vars, rate_limit, registry_vars, now, conns, admit_log, ext_bound>>

RuleFrame == EngineFrame /\ UNCHANGED udp_vars

(* mutant of CreateRuleCall: the new rule takes the first id no stored rule   *)
(* has, so the id of a deleted rule is handed out again                    *)
CreateRuleCallReusesId(s, limit, listen_addr, target_addr, enabled_opt, protocol_opt) ==
    /\ RuleFrame
    /\ Call(s, limit)
    /\ listen_addr # BlankAddr /\ target_addr # BlankAddr
    /\ LET used == {rules[i].id : i \in DOMAIN rules}
           id == CHOOSE n \in 1..(Len(rules) + 1) :
                    n \notin used /\ \A m \in 1..(n - 1) : m \in used
           rule == ProxyRule(id, listen_addr, target_addr,
                             unwrap_or(enabled_opt, TRUE), unwrap_or(protocol_opt, "tcp"))
           op == [IdleOp EXCEPT !.kind = "create", !.pre = PreState,
                                !.asked = AddrPair(listen_addr, target_addr)]
       IN /\ next_rule_id' = Max2(next_rule_id, id + 1)
          /\ rules' = Append(rules, rule)
          /\ persist_state(snapshot_state')
          /\ ops' = [ops EXCEPT ![s] =
                       IF rule.enabled
                       THEN [op EXCEPT !.pc = "start", !.id = rule.id, !.rule = rule]
                       ELSE Returned([op EXCEPT !.id = rule.id, !.rule = rule], "ok")]
    /\ UNCHANGED <<listeners, udp_listeners, lingering>>

(* create_rule, app.rs:431-459: the check for empty addresses and the      *)
(* write-lock section that stores the rule and snapshots the state         *)
CreateRuleCall(s, limit, listen_addr, target_addr, enabled_opt, protocol_opt) ==
    /\ RuleFrame
    /\ Call(s, limit)
    /\ LET op == [IdleOp EXCEPT !.kind = "create", !.pre = PreState,
                                !.asked = AddrPair(listen_addr, target_addr)]
           rule == ProxyRule(next_rule_id, listen_addr, target_addr,
                             unwrap_or(enabled_opt, TRUE), unwrap_or(protocol_opt, "tcp"))
       IN IF listen_addr = BlankAddr \/ target_addr = BlankAddr
          THEN /\ ops' = [ops EXCEPT ![s] =
                            Returned(op, "listen_addr and target_addr are required")]
               /\ UNCHANGED <<rules, next_rule_id, persist_vars>>
          ELSE /\ next_rule_id' = next_rule_id + 1
               /\ rules' = Append(rules, rule)
               /\ persist_state(snapshot_state')
               /\ ops' = [ops EXCEPT ![s] =
                            IF rule.enabled
                            THEN [op EXCEPT !.pc = "start", !.id = rule.id, !.rule = rule]
                            ELSE Returned([op EXCEPT !.id = rule.id, !.rule = rule], "ok")]
    /\ UNCHANGED <<listeners, udp_listeners, lingering>>

(* rules are created while next_rule_id <= MaxRuleId                       *)
create_rule(s, limit, listen_addr, target_addr, enabled_opt, protocol_opt) ==
    /\ next_rule_id <= MaxRuleId
    /\ CreateRuleCall(s, limit, listen_addr, target_addr, enabled_opt, protocol_opt)

(* enable_rule, app.rs:486-503: the flag is set under the write lock       *)
enable_rule(s, limit, id) ==
    /\ Call(s, limit)
    /\ HandleRoom(id)
    /\ LET op == [IdleOp EXCEPT !.kind = "enable", !.id = id, !.pre = PreState]
           pos == RulePosition(rules, id)
       IN IF pos = 0
          THEN /\ ops' = [ops EXCEPT ![s] = Returned(op, "Rule not found")]
               /\ UNCHANGED rules
          ELSE /\ rules' = [rules EXCEPT ![pos].enabled = TRUE]
               /\ ops' = [ops EXCEPT ![s] = [op EXCEPT !.pc = "start", !.rule = rules'[pos]]]
    /\ UNCHANGED <<next_rule_id, persist_vars, listeners, udp_listeners, lingering>>
    /\ RuleFrame

(* disable_rule, app.rs:527-544                                            *)
disable_rule(s, limit, id) ==
    /\ Call(s, limit)
    /\ LET op == [IdleOp EXCEPT !.kind = "disable", !.id = id, !.pre = PreState]
           pos == RulePosition(rules, id)
       IN IF pos = 0
          THEN /\ ops' = [ops EXCEPT ![s] = Returned(op, "Rule not found")]
               /\ UNCHANGED rules
          ELSE /\ rules' = [rules EXCEPT ![pos].enabled = FALSE]
               /\ ops' = [ops EXCEPT ![s] =
                            [op EXCEPT !.pc = "stop_tcp", !.after_stop = "snapshot",
                                       !.rule = rules'[pos]]]
    /\ UNCHANGED <<next_rule_id, persist_vars, listeners, udp_listeners, lingering>>
    /\ RuleFrame

UpdateRuleRequest(listen_opt, target_opt, enabled_opt, protocol_opt) ==
    [listen_addr |-> listen_opt, target_addr |-> target_opt,
     enabled |-> enabled_opt, protocol |-> protocol_opt]

(* update_rule, app.rs:560-609: the checks for empty addresses and the     *)
(* write-lock section that overwrites the fields the payload carries       *)
update_rule(s, limit, id, payload) ==
    /\ Call(s, limit)
    /\ HandleRoom(id)
    /\ LET pos == RulePosition(rules, id)
           old == IF pos = 0 THEN NoRule ELSE rules[pos]
           rule == ProxyRule(old.id,
                             unwrap_or(payload.listen_addr, old.listen_addr),
                             unwrap_or(payload.target_addr, old.target_addr),
                             unwrap_or(payload.enabled, old.enabled),
                             unwrap_or(payload.protocol, old.protocol))
           op == [IdleOp EXCEPT !.kind = "update", !.id = id, !.pre = PreState,
                                !.asked = AddrPair(rule.listen_addr, rule.target_addr)]
       IN IF payload.listen_addr = Some(BlankAddr)
          THEN /\ ops' = [ops EXCEPT ![s] = Returned(op, "listen_addr cannot be empty")]
               /\ UNCHANGED rules
          ELSE IF payload.target_addr = Some(BlankAddr)
          THEN /\ ops' = [ops EXCEPT ![s] = Returned(op, "target_addr cannot be empty")]
               /\ UNCHANGED rules
          ELSE IF pos = 0
          THEN /\ ops' = [ops EXCEPT ![s] = Returned(op, "Rule not found")]
               /\ UNCHANGED rules
          ELSE /\ rules' = [rules EXCEPT ![pos] = rule]
               /\ ops' = [ops EXCEPT ![s] =
                            [op EXCEPT !.rule = rule, !.was_enabled = old.enabled,
                                       !.pc = IF old.enabled THEN "stop_tcp"
                                              ELSE IF rule.enabled THEN "start"
                                              ELSE "snapshot",
                                       !.after_stop = IF rule.enabled THEN "start"
                                                      ELSE "snapshot"]]
    /\ UNCHANGED <<next_rule_id, persist_vars, listeners, udp_listeners, lingering>>
    /\ RuleFrame

(* remove_rule, app.rs:636-640: the listeners are stopped first            *)
remove_rule(s, limit, id) ==
    /\ Call(s, limit)
    /\ ops' = [ops EXCEPT ![s] =
                 [IdleOp EXCEPT !.kind = "delete", !.id = id, !.pre = PreState,
                                !.pc = "stop_tcp", !.after_stop = "remove"]]
    /\ UNCHANGED <<rules, next_rule_id, persist_vars, listeners, udp_listeners, lingering>>
    /\ RuleFrame

(* remove_rule, app.rs:642-662: the write-lock section that removes the    *)
(* rule and snapshots the state                                            *)
RemoveRuleLocked(s) ==
    /\ RuleFrame
    /\ ops[s].pc = "remove"
    /\ LET pos == RulePosition(rules, ops[s].id)
       IN IF pos = 0
          THEN /\ ops' = [ops EXCEPT ![s] = Returned(@, "Rule not found")]
               /\ UNCHANGED <<rules, persist_vars>>
          ELSE /\ rules' = SeqRemove(rules, pos)
               /\ persist_state(snapshot_state')
               /\ ops' = [ops EXCEPT ![s] = Returned([@ EXCEPT !.rule = rules[pos]], "ok")]
    /\ UNCHANGED <<next_rule_id, listeners, udp_listeners, lingering>>

(* where a call goes once start_rule_listeners returned Ok                 *)
AfterStart(op) ==
    IF op.kind = "create" THEN Returned(op, "ok")
    ELSE IF op.kind = "startup" THEN [op EXCEPT !.pc = "startup_next"]
    ELSE [op EXCEPT !.pc = "snapshot"]

(* start_rule_listeners, app.rs:1176-1180: expand the rule's clone         *)
StartRuleListeners(s) ==
    /\ ops[s].pc = "start"
    /\ LET op == ops[s]
           e == expand_listen_targets(op.rule.listen_addr, op.rule.target_addr)
       IN ops' = [ops EXCEPT ![s] =
                    IF ~e.ok
                    THEN [op EXCEPT !.start_failed = TRUE, !.pc = "fail_disable"]
                    ELSE [op EXCEPT !.targets = e.targets, !.idx = 1,
                                    !.pc = IF uses_tcp(op.rule.protocol)
                                           THEN "tcp_bind" ELSE "udp_bind"]]
    /\ UNCHANGED <<rules, next_rule_id, persist_vars, listeners, udp_listeners, lingering>>
    /\ RuleFrame

(* TcpListener::bind / UdpSocket::bind of the next target, outside the     *)
(* lock (app.rs:1218, udp_proxy.rs:36); on failure start_rule_listeners    *)
(* stops the rule's listeners (app.rs:1192-1193, 1199-1200)                *)
Bind(s, proto) ==
    LET op == ops[s]
        port == op.targets[op.idx].listen_port
    IN /\ ops' = [ops EXCEPT ![s] =
                    IF CanBind(proto, port)
                    THEN [op EXCEPT !.held = Sock(proto, port),
                                    !.pc = IF proto = "tcp" THEN "tcp_push" ELSE "udp_push"]
                    ELSE [op EXCEPT !.start_failed = TRUE, !.pc = "stop_tcp",
                                    !.after_stop = "fail_disable"]]
       /\ IF proto = "udp" /\ CanBind(proto, port) /\ port \in UdpPorts
          THEN /\ udp_task' = [udp_task EXCEPT ![port] = SpawnedUdpTask(op.id)]
               /\ clients' = [clients EXCEPT ![port] = EmptyMap]
               /\ UNCHANGED sessions
          ELSE UNCHANGED udp_vars
       /\ UNCHANGED <<rules, next_rule_id, persist_vars, listeners, udp_listeners, lingering>>
       /\ EngineFrame

StartTcpListenerBind(s) == ops[s].pc = "tcp_bind" /\ Bind(s, "tcp")

StartUdpListenerBind(s) == ops[s].pc = "udp_bind" /\ Bind(s, "udp")

(* start_tcp_listener, app.rs:1261-1267: push the handle under the lock    *)
StartTcpListenerPush(s) ==
    /\ ops[s].pc = "tcp_push"
    /\ LET op == ops[s]
           more == op.idx < Len(op.targets)
           pushed == [op EXCEPT !.held = NoSock]
       IN /\ listeners' = MapPut(listeners, op.id,
                             Append(MapGet(listeners, op.id, <<>>),
                                    ListenerHandle(op.held.port)))
          /\ ops' = [ops EXCEPT ![s] =
                       IF more THEN [pushed EXCEPT !.idx = op.idx + 1, !.pc = "tcp_bind"]
                       ELSE IF uses_udp(op.rule.protocol)
                       THEN [pushed EXCEPT !.idx = 1, !.pc = "udp_bind"]
                       ELSE AfterStart(pushed)]
    /\ UNCHANGED <<rules, next_rule_id, persist_vars, udp_listeners, lingering>>
    /\ RuleFrame

(* start_udp_listener, app.rs:1298-1303                                    *)
StartUdpListenerPush(s) ==
    /\ ops[s].pc = "udp_push"
    /\ LET op == ops[s]
           more == op.idx < Len(op.targets)
           pushed == [op EXCEPT !.held = NoSock]
       IN /\ udp_listeners' = MapPut(udp_listeners, op.id,
                                 Append(MapGet(udp_listeners, op.id, <<>>),
                                        ListenerHandle(op.held.port)))
          /\ ops' = [ops EXCEPT ![s] =
                       IF more THEN [pushed EXCEPT !.idx = op.idx + 1, !.pc = "udp_bind"]
                       ELSE AfterStart(pushed)]
    /\ UNCHANGED <<rules, next_rule_id, persist_vars, listeners, lingering>>
    /\ RuleFrame

(* stop_tcp_listener, app.rs:1270-1281: take the rule's handles out of the *)
(* map under the lock, then cancel and abort each listener task            *)
stop_tcp_listener(s) ==
    /\ ops[s].pc = "stop_tcp"
    /\ listeners' = MapDel(listeners, ops[s].id)
    /\ lingering' = lingering \cup Aborted("tcp", MapGet(listeners, ops[s].id, <<>>))
    /\ ops' = [ops EXCEPT ![s].pc = "stop_udp"]
    /\ UNCHANGED <<rules, next_rule_id, persist_vars, udp_listeners>>
    /\ RuleFrame

(* stop_udp_listener, app.rs:1307-1318                                     *)
stop_udp_listener(s) ==
    /\ ops[s].pc = "stop_udp"
    /\ udp_listeners' = MapDel(udp_listeners, ops[s].id)
    /\ lingering' = lingering \cup Aborted("udp", MapGet(udp_listeners, ops[s].id, <<>>))
    /\ LET handles == MapGet(udp_listeners, ops[s].id, <<>>)
           ports == {handles[i].port : i \in DOMAIN handles}
       IN /\ udp_task' = CancelledTasks(ports)
          /\ sessions' = CancelledSessions(ports)
    /\ UNCHANGED clients
    /\ ops' = [ops EXCEPT ![s].pc = ops[s].after_stop]
    /\ UNCHANGED <<rules, next_rule_id, persist_vars, listeners>>
    /\ EngineFrame

(* mutant of disable_rule_after_start_failure: the flag is left as it is   *)
disable_rule_after_start_failure_keep_flag(s) ==
    /\ RuleFrame
    /\ ops[s].pc = "fail_disable"
    /\ rules' = rules
    /\ persist_state(snapshot_state')
    /\ LET op == ops[s]
       IN ops' = [ops EXCEPT ![s] =
                    IF op.kind = "startup"
                    THEN [op EXCEPT !.pc = "startup_next", !.failed = op.failed \cup {op.id}]
                    ELSE Returned(op, "Listener failed")]
    /\ UNCHANGED <<next_rule_id, listeners, udp_listeners, lingering>>

(* disable_rule_after_start_failure, app.rs:1320-1329; the caller then     *)
(* answers "Listener failed" (startup: logs a warning and goes on)        *)
disable_rule_after_start_failure(s) ==
    /\ RuleFrame
    /\ ops[s].pc = "fail_disable"
    /\ LET pos == RulePosition(rules, ops[s].id)
       IN rules' = IF pos = 0 THEN rules ELSE [rules EXCEPT ![pos].enabled = FALSE]
    /\ persist_state(snapshot_state')
    /\ LET op == ops[s]
       IN ops' = [ops EXCEPT ![s] =
                    IF op.kind = "startup"
                    THEN [op EXCEPT !.pc = "startup_next", !.failed = op.failed \cup {op.id}]
                    ELSE Returned(op, "Listener failed")]
    /\ UNCHANGED <<next_rule_id, listeners, udp_listeners, lingering>>

(* the read-lock snapshot handed to persist_state before Ok is returned    *)
(* (app.rs:515-520, 547-552, 628-633)                                      *)
SnapshotAndPersist(s) ==
    /\ ops[s].pc = "snapshot"
    /\ persist_state(snapshot_state)
    /\ ops' = [ops EXCEPT ![s] = Returned(@, "ok")]
    /\ UNCHANGED <<rules, next_rule_id, listeners, udp_listeners, lingering>>
    /\ RuleFrame

(* run_app, app.rs:128-137: the next rule of rules_to_start                *)
StartupNext(s) ==
    /\ ops[s].pc = "startup_next"
    /\ LET op == ops[s]
       IN ops' = [ops EXCEPT ![s] =
                    IF op.queue = <<>> THEN Returned(op, "ok")
                    ELSE [op EXCEPT !.pc = "start", !.rule = Head(op.queue),
                                    !.id = Head(op.queue).id, !.queue = Tail(op.queue),
                                    !.start_failed = FALSE]]
    /\ UNCHANGED <<rules, next_rule_id, persist_vars, listeners, udp_listeners, lingering>>
    /\ RuleFrame

(* the response of a returned call is delivered                            *)
Respond(s) ==
    /\ ops[s].pc = "returned"
    /\ ops' = [ops EXCEPT ![s] = IdleOp]
    /\ UNCHANGED <<rules, next_rule_id, persist_vars, listeners, udp_listeners, lingering>>
    /\ RuleFrame

(* the runtime drops an aborted listener task: its socket is closed        *)
TaskDrop(sock) ==
    /\ sock \in lingering
    /\ (sock.proto = "udp" /\ sock.port \in UdpPorts) => udp_task[sock.port].pc = "none"
    /\ lingering' = lingering \ {sock}
    /\ UNCHANGED <<rules, next_rule_id, persist_vars, listeners, udp_listeners, ops>>
    /\ RuleFrame

(* the steps every call shares                                             *)
RuleStep(s) ==
    \/ StartRuleListeners(s)
    \/ StartTcpListenerBind(s)
    \/ StartTcpListenerPush(s)
    \/ StartUdpListenerBind(s)
    \/ StartUdpListenerPush(s)
    \/ stop_tcp_listener(s)
    \/ stop_udp_listener(s)
    \/ disable_rule_after_start_failure(s)
    \/ SnapshotAndPersist(s)
    \/ Respond(s)

(***************************************************************************)
(* The UDP listener loop (udp_proxy.rs:46-138), one action per await.      *)
(***************************************************************************)
UdpFrame == UNCHANGED <<now, conns, engine_vars, admit_log>>

UdpIdle == UNCHANGED <<policy_vars, rate_limit, registry_vars, persist_vars>>

(* recv_from yields a datagram of client_addr and the client map is looked *)
(* up (udp_proxy.rs:53-69); a datagram is one byte long                    *)
UdpRecvFrom(p, client_addr) ==
    /\ udp_task[p].pc = "select"
    /\ IF client_addr \in DOMAIN clients[p]
       THEN clients[p][client_addr].bytes_up < MaxUdpBytes
       ELSE next_conn_id <= MaxConnId
    /\ udp_task' = [udp_task EXCEPT ![p].client_addr = client_addr,
                                    ![p].pc = IF client_addr \in DOMAIN clients[p]
                                              THEN "forward" ELSE "register"]
    /\ UNCHANGED <<clients, sessions>>
    /\ UdpIdle /\ UdpFrame

(* needs_session: register_connection (udp_proxy.rs:72-78)                 *)
UdpRegister(p) ==
    /\ udp_task[p].pc = "register"
    /\ LET r == register_connection(udp_task[p].rule_id, udp_task[p].client_addr.ip, p) IN
       /\ rate_counters' = r.rate_counters
       /\ active' = r.active
       /\ active_by_ip' = r.active_by_ip
       /\ next_conn_id' = r.next_conn_id
       /\ udp_task' = [udp_task EXCEPT ![p].pc = IF r.ok THEN "upstream" ELSE "rejected",
                                       ![p].conn_id = r.conn_id,
                                       ![p].reason = r.reason]
    /\ UNCHANGED <<history, policy_vars, rate_limit, persist_vars, clients, sessions>>
    /\ UdpFrame

(* the admission was rejected: record_blocked, continue (udp_proxy.rs:74-77) *)
UdpRecordBlocked(p) ==
    /\ udp_task[p].pc = "rejected"
    /\ record_blocked(udp_task[p].rule_id, p, udp_task[p].client_addr.ip,
                      udp_task[p].reason)
    /\ udp_task' = [udp_task EXCEPT ![p].pc = "select", ![p].client_addr = NoClient,
                                    ![p].conn_id = 0, ![p].reason = NoReason]
    /\ UNCHANGED <<clients, sessions>>
    /\ UdpFrame

(* the ephemeral bind or the connect fails: record_connection_end with the *)
(* error, continue (udp_proxy.rs:80-91)                                    *)
UdpUpstreamFailed(p, msg) ==
    /\ udp_task[p].pc = "upstream"
    /\ record_connection_end(udp_task[p].conn_id, 0, 0, Reason(msg, 0, ""))
    /\ udp_task' = [udp_task EXCEPT ![p].pc = "select", ![p].client_addr = NoClient,
                                    ![p].conn_id = 0]
    /\ UNCHANGED <<clients, sessions>>
    /\ UdpFrame

(* bind and connect succeed: the entry is inserted and the session task is *)
(* spawned with a clone of the token (udp_proxy.rs:93-117)                 *)
UdpSessionInserted(p) ==
    /\ udp_task[p].pc = "upstream"
    /\ LET a == udp_task[p].client_addr IN
       IF a \in DOMAIN clients[p]
       THEN /\ udp_task' = [udp_task EXCEPT ![p].pc = "select", ![p].client_addr = NoClient,
                                            ![p].conn_id = 0]
            /\ UNCHANGED <<clients, sessions>>
       ELSE /\ clients' = [clients EXCEPT ![p] =
                              MapPut(@, a, ClientEntry(udp_task[p].conn_id, now))]
            /\ sessions' = [sessions EXCEPT ![p] =
                               MapPut(@, a, Session(udp_task[p].shutdown))]
            /\ udp_task' = [udp_task EXCEPT ![p].pc = "forward", ![p].conn_id = 0]
    /\ UdpIdle /\ UdpFrame

(* the datagram is counted on the entry and sent upstream                  *)
(* (udp_proxy.rs:120-133)                                                  *)
UdpForward(p) ==
    /\ udp_task[p].pc = "forward"
    /\ LET a == udp_task[p].client_addr IN
       clients' = IF a \in DOMAIN clients[p]
                  THEN [clients EXCEPT ![p][a].bytes_up = @ + 1, ![p][a].last_seen = now]
                  ELSE clients
    /\ udp_task' = [udp_task EXCEPT ![p].pc = "select", ![p].client_addr = NoClient]
    /\ UNCHANGED sessions
    /\ UdpIdle /\ UdpFrame

(* back in select! with the token cancelled the loop breaks                *)
(* (udp_proxy.rs:50-52, 137)                                               *)
UdpListenerBreak(p) ==
    /\ udp_task[p].pc = "select"
    /\ udp_task[p].shutdown
    /\ udp_task' = [udp_task EXCEPT ![p] = NoUdpTask]
    /\ UNCHANGED <<clients, sessions>>
    /\ UdpIdle /\ UdpFrame

(* the runtime drops the aborted listener task at the await it is          *)
(* suspended at: its locals, the admitted conn_id among them, are gone     *)
UdpTaskAborted(p) ==
    /\ udp_task[p].pc \in {"register", "rejected", "upstream", "forward"}
    /\ udp_task[p].shutdown
    /\ udp_task' = [udp_task EXCEPT ![p] = NoUdpTask]
    /\ UNCHANGED <<clients, sessions>>
    /\ UdpIdle /\ UdpFrame

(***************************************************************************)
(* A session task (udp_proxy.rs:152-200).                                  *)
(***************************************************************************)
(* upstream.recv yields a datagram, it is sent to the client and counted   *)
(* on the entry (udp_proxy.rs:160-177)                                     *)
SessionUpstreamRecv(p, a) ==
    /\ a \in DOMAIN sessions[p]
    /\ sessions[p][a].pc = "select"
    /\ a \in DOMAIN clients[p] => clients[p][a].bytes_down < MaxUdpBytes
    /\ clients' = IF a \in DOMAIN clients[p]
                  THEN [clients EXCEPT ![p][a].bytes_down = @ + 1, ![p][a].last_seen = now]
                  ELSE clients
    /\ UNCHANGED <<udp_task, sessions>>
    /\ UdpIdle /\ UdpFrame

(* upstream.recv or listener.send_to fails (udp_proxy.rs:163-171)          *)
SessionUpstreamError(p, a) ==
    /\ a \in DOMAIN sessions[p]
    /\ sessions[p][a].pc = "select"
    /\ sessions' = [sessions EXCEPT ![p][a].pc = "remove", ![p][a].broke = "error"]
    /\ UNCHANGED <<udp_task, clients>>
    /\ UdpIdle /\ UdpFrame

(* the idle tick (udp_proxy.rs:178-189): under the client-map lock, idle   *)
(* when the entry is gone or last_seen is more than 60 s old               *)
SessionIdle(p, a) ==
    a \notin DOMAIN clients[p] \/ now - clients[p][a].last_seen > UDP_IDLE_TIMEOUT

SessionTick(p, a) ==
    /\ a \in DOMAIN sessions[p]
    /\ sessions[p][a].pc = "select"
    /\ SessionIdle(p, a)
    /\ sessions' = [sessions EXCEPT ![p][a].pc = "remove", ![p][a].broke = "idle"]
    /\ UNCHANGED <<udp_task, clients>>
    /\ UdpIdle /\ UdpFrame

(* shutdown.cancelled() (udp_proxy.rs:157-159)                             *)
SessionCancelled(p, a) ==
    /\ a \in DOMAIN sessions[p]
    /\ sessions[p][a].pc = "select"
    /\ sessions[p][a].shutdown
    /\ sessions' = [sessions EXCEPT ![p][a].pc = "remove", ![p][a].broke = "shutdown"]
    /\ UNCHANGED <<udp_task, clients>>
    /\ UdpIdle /\ UdpFrame

(* after the loop: the entry is removed from the client map and the        *)
(* connection is recorded as ended with reason None (udp_proxy.rs:193-199) *)
SessionFinalize(p, a) ==
    /\ a \in DOMAIN sessions[p]
    /\ sessions[p][a].pc = "remove"
    /\ IF a \in DOMAIN clients[p]
       THEN /\ clients' = [clients EXCEPT ![p] = MapDel(@, a)]
            /\ record_connection_end(clients[p][a].conn_id, clients[p][a].bytes_up,
                                     clients[p][a].bytes_down, NoReason)
       ELSE UNCHANGED <<clients, policy_vars, rate_limit, registry_vars, rule_vars,
                        persist_vars>>
    /\ sessions' = [sessions EXCEPT ![p] = MapDel(@, a)]
    /\ UNCHANGED udp_task
    /\ UdpFrame

(***************************************************************************)
(* load_state (app.rs:1098-1174): the state after construction.  The rate  *)
(* limit is the file's, unclamped; registry and listener maps are empty.   *)
(***************************************************************************)
LoadedRateLimits ==
    [max_new_connections_per_minute : 0..MaxLimit,
     max_concurrent_connections_per_ip : 0..MaxLimit,
     max_concurrent_total : 0..MaxLimit]

InitRuntime ==
    /\ active = EmptyMap
    /\ active_by_ip = EmptyMap
    /\ rate_counters = EmptyMap
    /\ now = 0
    /\ conns = [t \in Tasks |-> IdleConn]
    /\ udp_task = [p \in UdpPorts |-> NoUdpTask]
    /\ clients = [p \in UdpPorts |-> EmptyMap]
    /\ sessions = [p \in UdpPorts |-> EmptyMap]
    /\ admit_log = <<>>

InitRegistry ==
    /\ InitRuntime
    /\ history = <<>>
    /\ next_conn_id = 1

InitEmptyPolicy ==
    /\ allowlist_enabled = FALSE
    /\ allowlist = {}
    /\ allowlist_ports = EmptyMap
    /\ blocklist = {}
    /\ port_blocklist = EmptyMap
    /\ geo_blocklist = {}
    /\ geo_port_blocklist = EmptyMap
    /\ geo_db = NONE

InitNoRules ==
    /\ rules = <<>>
    /\ next_rule_id = 1
    /\ listeners = EmptyMap
    /\ udp_listeners = EmptyMap
    /\ lingering = {}
    /\ ext_bound = {}
    /\ ops = [s \in OpSlots |-> IdleOp]

Init ==
    /\ InitEmptyPolicy
    /\ rate_limit \in LoadedRateLimits
    /\ InitRegistry
    /\ InitNoRules
    /\ last_snapshot = snapshot_state
    /\ fs = NoFs

(* Spec: admissions, finalizations and rate-limit updates in any order     *)
Next ==
    \/ \E t \in Tasks, r \in ConnRuleIds, ip \in IPs : Accept(t, r, ip, ListenPort)
    \/ \E t \in Tasks : HandleConnectionBlocked(t)
    \/ \E t \in Tasks : HandleConnectionConnectFailed(t)
    \/ \E t \in Tasks, b \in RelayedBytes : HandleConnectionRelayed(t, b[1], b[2])
    \/ \E q \in RateLimitRequests : UpdateRateLimit(q[1], q[2], q[3])

Spec == Init /\ [][Next]_vars

(* SpecRate: admissions and finalizations as time passes, the rate limit   *)
(* being the loaded one                                                    *)
NextRate ==
    \/ \E t \in Tasks, r \in ConnRuleIds, ip \in IPs : AcceptLogged(t, r, ip, ListenPort)
    \/ \E t \in Tasks : HandleConnectionBlocked(t)
    \/ \E t \in Tasks : HandleConnectionConnectFailed(t)
    \/ \E t \in Tasks, b \in RelayedBytes : HandleConnectionRelayed(t, b[1], b[2])
    \/ \E d \in TickSteps : Tick(d)

SpecRate == Init /\ [][NextRate]_vars

(* SpecPolicy: operators edit the policy store while one client connects   *)
(* on one port                                                             *)
PolicyIP == "10.0.0.1"

PolicyPort == 443

PolicyRateLimits ==
    {rl \in LoadedRateLimits :
        /\ rl.max_new_connections_per_minute = 1
        /\ rl.max_concurrent_connections_per_ip >= 1
        /\ rl.max_concurrent_total >= rl.max_concurrent_connections_per_ip}

AcceptEarly(t, rule_id, client_ip, listen_port) ==
    /\ Len(history) < MaxPolicyLog
    /\ Accept(t, rule_id, client_ip, listen_port)

InitPolicy ==
    /\ InitEmptyPolicy
    /\ rate_limit \in PolicyRateLimits
    /\ InitRegistry
    /\ InitNoRules
    /\ last_snapshot = snapshot_state
    /\ fs = NoFs

NextPolicy ==
    \/ \E t \in Tasks, r \in ConnRuleIds : AcceptEarly(t, r, PolicyIP, PolicyPort)
    \/ \E t \in Tasks : HandleConnectionBlocked(t)
    \/ add_allow(PolicyIP, Absent)
    \/ \E ip \in IPs : add_allow(ip, PolicyPort)
    \/ remove_allow(PolicyIP, Absent)
    \/ \E ip \in IPs : remove_allow(ip, PolicyPort)
    \/ \E port \in {Absent, PolicyPort} : add_block(PolicyIP, port)
    \/ \E port \in {Absent, PolicyPort} : remove_block(PolicyIP, port)
    \/ \E c \in Countries, port \in {Absent, PolicyPort} : add_geo_block(c, port)
    \/ \E c \in Countries, port \in {Absent, PolicyPort} : remove_geo_block(c, port)
    \/ \E e \in BOOLEAN : update_allowlist_mode(e)
    \/ refresh_geo_db

SpecPolicy == InitPolicy /\ [][NextPolicy]_vars

(***************************************************************************)
(* Inputs of the rule engine: the address pairs posted to the API, the     *)
(* rule files the process starts from, the ports other processes hold.     *)
(***************************************************************************)
ListenOne == Addr("0.0.0.0", 7000, 7000, FALSE)

ListenTwo == Addr("0.0.0.0", 7000, 7001, TRUE)

ListenTwoPorts == parse_ports(ListenTwo).ports

ListenThree == Addr("0.0.0.0", 7000, 7002, TRUE)

ListenAny == Addr("0.0.0.0", 0, 0, FALSE)

ListenZeroRange == Addr("0.0.0.0", 0, 5, TRUE)

ListenWide == Addr("0.0.0.0", 1, 1025, TRUE)

ListenBadPort == Addr("0.0.0.0", 70000, 70000, FALSE)

TargetOne == Addr("10.0.0.5", 80, 80, FALSE)

TargetTwo == Addr("10.0.0.5", 9000, 9001, TRUE)

CreateSpecs ==
    {AddrPair(ListenOne, TargetOne), AddrPair(ListenTwo, TargetTwo),
     AddrPair(ListenAny, TargetOne), AddrPair(ListenThree, TargetTwo),
     AddrPair(ListenZeroRange, TargetOne), AddrPair(ListenWide, TargetOne),
     AddrPair(ListenBadPort, TargetOne), AddrPair(BlankAddr, TargetOne)}

UpdateRequests ==
    {UpdateRuleRequest(None, None, None, None),
     UpdateRuleRequest(None, None, Some(TRUE), None),
     UpdateRuleRequest(None, None, Some(FALSE), None),
     UpdateRuleRequest(None, None, None, Some("both")),
     UpdateRuleRequest(Some(ListenThree), Some(TargetTwo), None, None),
     UpdateRuleRequest(Some(ListenOne), Some(TargetOne), None, None),
     UpdateRuleRequest(None, Some(BlankAddr), None, None)}

RuleIds == 1..MaxRuleId

LoadedRules ==
    {<<>>,
     <<ProxyRule(1, ListenOne, TargetOne, FALSE, "both")>>,
     <<ProxyRule(1, ListenTwo, TargetTwo, TRUE, "both")>>,
     <<ProxyRule(1, ListenOne, TargetOne, TRUE, "tcp"),
       ProxyRule(2, ListenOne, TargetOne, TRUE, "tcp")>>}

ExtBoundChoices == {{}, {7001}}

DefaultRateLimit ==
    [max_new_connections_per_minute |-> MaxLimit,
     max_concurrent_connections_per_ip |-> MaxLimit,
     max_concurrent_total |-> MaxLimit]

Enabled(rule) == rule.enabled

(* load_state: next_rule_id = max id + 1 (app.rs:1098-1174)                *)
NextRuleIdOf(rs) ==
    IF rs = <<>> THEN 1
    ELSE (CHOOSE m \in {rs[i].id : i \in DOMAIN rs} :
            \A i \in DOMAIN rs : rs[i].id <= m) + 1

(* load_state: next_conn_id = max id of the history + 1 (app.rs:1115-1121) *)
RECURSIVE MaxIdIn(_, _, _)
(* the largest id among h[lo..hi], by halving the range                    *)
MaxIdIn(h, lo, hi) ==
    IF lo = hi THEN h[lo].id
    ELSE LET mid == (lo + hi) \div 2 IN
         Max2(MaxIdIn(h, lo, mid), MaxIdIn(h, mid + 1, hi))

NextConnIdOf(h) ==
    IF Len(h) = 0 THEN 1 ELSE MaxIdIn(h, 1, Len(h)) + 1

(* load_state and run_app, app.rs:114-126: the state is loaded from the    *)
(* persisted rules, history and rate limit, and the enabled rules are      *)
(* queued for the startup loop; bound are the ports other processes hold   *)
InitLoaded(persisted_rules, persisted_history, persisted_rate_limit, bound) ==
    /\ InitEmptyPolicy
    /\ rate_limit = persisted_rate_limit
    /\ InitRuntime
    /\ history = persisted_history
    /\ next_conn_id = NextConnIdOf(persisted_history)
    /\ rules = persisted_rules
    /\ next_rule_id = NextRuleIdOf(persisted_rules)
    /\ listeners = EmptyMap
    /\ udp_listeners = EmptyMap
    /\ lingering = {}
    /\ ext_bound = bound
    /\ last_snapshot = snapshot_state
    /\ fs = NoFs
    /\ ops = [s \in OpSlots |->
                IF s = 1
                THEN [IdleOp EXCEPT !.kind = "startup", !.pc = "startup_next",
                                    !.queue = SelectSeq(rules, Enabled),
                                    !.pre = PreState]
                ELSE IdleOp]

InitRules ==
    \E rs \in LoadedRules, bound \in ExtBoundChoices :
        InitLoaded(rs, <<>>, DefaultRateLimit, bound)

(* SpecRules: the startup loop, then API calls one at a time              *)
NextRules ==
    \/ \E s \in OpSlots, a \in CreateSpecs, e \in {None, Some(FALSE)} :
          create_rule(s, 1, a.listen_addr, a.target_addr, e, None)
    \/ \E s \in OpSlots, id \in RuleIds : enable_rule(s, 1, id)
    \/ \E s \in OpSlots, id \in RuleIds : disable_rule(s, 1, id)
    \/ \E s \in OpSlots, id \in RuleIds, q \in UpdateRequests : update_rule(s, 1, id, q)
    \/ \E s \in OpSlots, id \in RuleIds : remove_rule(s, 1, id)
    \/ \E s \in OpSlots : RemoveRuleLocked(s)
    \/ \E s \in OpSlots : StartupNext(s)
    \/ \E s \in OpSlots : RuleStep(s)
    \/ \E sock \in lingering : TaskDrop(sock)

SpecRules == InitRules /\ [][NextRules]_vars

(* SpecRulesConc: API calls on one loaded rule, up to MaxOps at a time     *)
ConcRuleId == NextRuleIdOf(<<>>)

ConcUpdateRequests ==
    {UpdateRuleRequest(None, None, None, None),
     UpdateRuleRequest(None, None, Some(FALSE), None)}

InitRulesConc ==
    /\ InitRules
    /\ rules = <<ProxyRule(ConcRuleId, ListenOne, TargetOne, FALSE, "both")>>
    /\ ext_bound = {}

NextRulesConc ==
    \/ \E s \in OpSlots : enable_rule(s, MaxOps, ConcRuleId)
    \/ \E s \in OpSlots : disable_rule(s, MaxOps, ConcRuleId)
    \/ \E s \in OpSlots, q \in ConcUpdateRequests : update_rule(s, MaxOps, ConcRuleId, q)
    \/ \E s \in OpSlots : remove_rule(s, MaxOps, ConcRuleId)
    \/ \E s \in OpSlots : RemoveRuleLocked(s)
    \/ \E s \in OpSlots : StartupNext(s)
    \/ \E s \in OpSlots : RuleStep(s)
    \/ \E sock \in lingering : TaskDrop(sock)

SpecRulesConc == InitRulesConc /\ [][NextRulesConc]_vars

(***************************************************************************)
(* SpecRelay: one enabled TCP rule is loaded and started, clients connect  *)
(* to its listener and are relayed, and the operator disables the rule.    *)
(* Fairness: every step the program takes on its own (the steps of an API  *)
(* call, a task released by the runtime, the end of a connect attempt, the *)
(* finalization of a connection whose relay returned) is eventually taken; *)
(* what the peers do (a new connection, an EOF or an error on a stream)    *)
(* and what the operator does is not.                                      *)
(***************************************************************************)
RelayRuleId == NextRuleIdOf(<<>>)

RelayRule == ProxyRule(RelayRuleId, ListenOne, TargetOne, TRUE, "tcp")

RelayClients == {"10.0.0.1"}

InitRelay == InitLoaded(<<RelayRule>>, <<>>, DefaultRateLimit, {})

(* the accept loop of a registered listener hands a connection to a task   *)
(* (app.rs:1230-1255)                                                      *)
AcceptOnListener(t, rule_id, client_ip) ==
    /\ rule_id \in DOMAIN listeners
    /\ \E i \in DOMAIN listeners[rule_id] :
          Accept(t, rule_id, client_ip, listeners[rule_id][i].port)

ConnectResolves(t) == HandleConnectionConnectFailed(t) \/ HandleConnectionConnected(t)

ConnProgress(t) ==
    \/ HandleConnectionBlocked(t)
    \/ ConnectResolves(t)
    \/ HandleConnectionJoined(t)

RelayOpProgress(s) ==
    \/ StartupNext(s)
    \/ StartRuleListeners(s)
    \/ StartTcpListenerBind(s)
    \/ StartTcpListenerPush(s)
    \/ stop_tcp_listener(s)
    \/ stop_udp_listener(s)
    \/ SnapshotAndPersist(s)
    \/ Respond(s)

NextRelay ==
    \/ \E s \in OpSlots : StartupNext(s)
    \/ \E s \in OpSlots : StartRuleListeners(s)
    \/ \E s \in OpSlots : StartTcpListenerBind(s)
    \/ \E s \in OpSlots : StartTcpListenerPush(s)
    \/ \E s \in OpSlots : disable_rule(s, 1, RelayRuleId)
    \/ \E s \in OpSlots : stop_tcp_listener(s)
    \/ \E s \in OpSlots : stop_udp_listener(s)
    \/ \E s \in OpSlots : SnapshotAndPersist(s)
    \/ \E s \in OpSlots : Respond(s)
    \/ \E sock \in lingering : TaskDrop(sock)
    \/ \E t \in Tasks, ip \in RelayClients : AcceptOnListener(t, RelayRuleId, ip)
    \/ \E t \in Tasks : HandleConnectionBlocked(t)
    \/ \E t \in Tasks : HandleConnectionConnectFailed(t)
    \/ \E t \in Tasks : HandleConnectionConnected(t)
    \/ \E t \in Tasks, how \in PumpEnds, b \in RelayedBytes : ClientToServerEnds(t, how, b[1])
    \/ \E t \in Tasks, how \in PumpEnds, b \in RelayedBytes : ServerToClientEnds(t, how, b[2])
    \/ \E t \in Tasks, b \in RelayedBytes : PumpUpdatesBytes(t, b[1])
    \/ \E t \in Tasks : HandleConnectionJoined(t)

RelayFairness ==
    /\ \A t \in Tasks : WF_vars(ConnProgress(t))
    /\ \A s \in OpSlots : WF_vars(RelayOpProgress(s))
    /\ WF_vars(\E sock \in lingering : TaskDrop(sock))

SpecRelay == InitRelay /\ [][NextRelay]_vars /\ RelayFairness

(***************************************************************************)
(* SpecUdp: one enabled UDP rule is loaded and started, two sources of one *)
(* IP send datagrams to its listener and the operator disables the rule.   *)
(* At most one connection per IP is allowed, so the second source is       *)
(* rejected while the first has a session.  Fairness as                    *)
(* in SpecRelay: the steps of the listener task, of the session tasks and  *)
(* of an API call are eventually taken, an aborted task is eventually      *)
(* dropped or finishes; datagrams and upstream errors are not forced.      *)
(***************************************************************************)
UdpRuleId == NextRuleIdOf(<<>>)

UdpRule == ProxyRule(UdpRuleId, ListenOne, TargetOne, TRUE, "udp")

UdpRateLimit ==
    [max_new_connections_per_minute |-> MaxLimit,
     max_concurrent_connections_per_ip |-> 1,
     max_concurrent_total |-> MaxLimit]

UpstreamErrors == {"UDP bind failed", "UDP connect failed"}

InitUdp == InitLoaded(<<UdpRule>>, <<>>, UdpRateLimit, {})

UdpTaskProgress(p) ==
    \/ UdpRegister(p)
    \/ UdpRecordBlocked(p)
    \/ \E msg \in UpstreamErrors : UdpUpstreamFailed(p, msg)
    \/ UdpSessionInserted(p)
    \/ UdpForward(p)
    \/ UdpListenerBreak(p)
    \/ UdpTaskAborted(p)

SessionProgress(p, a) ==
    \/ SessionCancelled(p, a)
    \/ SessionFinalize(p, a)

UdpOpProgress(s) ==
    \/ StartupNext(s)
    \/ StartRuleListeners(s)
    \/ StartUdpListenerBind(s)
    \/ StartUdpListenerPush(s)
    \/ stop_tcp_listener(s)
    \/ stop_udp_listener(s)
    \/ SnapshotAndPersist(s)
    \/ Respond(s)

NextUdp ==
    \/ \E s \in OpSlots : StartupNext(s)
    \/ \E s \in OpSlots : StartRuleListeners(s)
    \/ \E s \in OpSlots : StartUdpListenerBind(s)
    \/ \E s \in OpSlots : StartUdpListenerPush(s)
    \/ \E s \in OpSlots : disable_rule(s, 1, UdpRuleId)
    \/ \E s \in OpSlots : stop_tcp_listener(s)
    \/ \E s \in OpSlots : stop_udp_listener(s)
    \/ \E s \in OpSlots : SnapshotAndPersist(s)
    \/ \E s \in OpSlots : Respond(s)
    \/ \E sock \in lingering : TaskDrop(sock)
    \/ \E p \in UdpPorts, a \in UdpClients : UdpRecvFrom(p, a)
    \/ \E p \in UdpPorts : UdpRegister(p)
    \/ \E p \in UdpPorts : UdpRecordBlocked(p)
    \/ \E p \in UdpPorts, msg \in UpstreamErrors : UdpUpstreamFailed(p, msg)
    \/ \E p \in UdpPorts : UdpSessionInserted(p)
    \/ \E p \in UdpPorts : UdpForward(p)
    \/ \E p \in UdpPorts : UdpListenerBreak(p)
    \/ \E p \in UdpPorts : UdpTaskAborted(p)
    \/ \E p \in UdpPorts, a \in UdpClients : SessionUpstreamRecv(p, a)
    \/ \E p \in UdpPorts, a \in UdpClients : SessionUpstreamError(p, a)
    \/ \E p \in UdpPorts, a \in UdpClients : SessionCancelled(p, a)
    \/ \E p \in UdpPorts, a \in UdpClients : SessionFinalize(p, a)

UdpFairness ==
    /\ \A p \in UdpPorts : WF_vars(UdpTaskProgress(p))
    /\ \A p \in UdpPorts, a \in UdpClients : WF_vars(SessionProgress(p, a))
    /\ \A s \in OpSlots : WF_vars(UdpOpProgress(s))
    /\ WF_vars(\E sock \in lingering : TaskDrop(sock))

SpecUdp == InitUdp /\ [][NextUdp]_vars /\ UdpFairness

(***************************************************************************)
(* SpecUdpIdle: the same rule, started and left running while one source   *)
(* sends datagrams and time passes: its sessions are ended by the idle     *)
(* tick or by an upstream error.                                           *)
(***************************************************************************)
IdleClients == {[ip |-> "10.0.0.1", port |-> 5000]}

NextUdpIdle ==
    \/ \E s \in OpSlots : StartupNext(s)
    \/ \E s \in OpSlots : StartRuleListeners(s)
    \/ \E s \in OpSlots : StartUdpListenerBind(s)
    \/ \E s \in OpSlots : StartUdpListenerPush(s)
    \/ \E s \in OpSlots : Respond(s)
    \/ \E p \in UdpPorts, a \in IdleClients : UdpRecvFrom(p, a)
    \/ \E p \in UdpPorts : UdpRegister(p)
    \/ \E p \in UdpPorts : UdpRecordBlocked(p)
    \/ \E p \in UdpPorts, msg \in UpstreamErrors : UdpUpstreamFailed(p, msg)
    \/ \E p \in UdpPorts : UdpSessionInserted(p)
    \/ \E p \in UdpPorts : UdpForward(p)
    \/ \E p \in UdpPorts, a \in IdleClients : SessionUpstreamRecv(p, a)
    \/ \E p \in UdpPorts, a \in IdleClients : SessionUpstreamError(p, a)
    \/ \E p \in UdpPorts, a \in IdleClients : SessionTick(p, a)
    \/ \E p \in UdpPorts, a \in IdleClients : SessionFinalize(p, a)
    \/ \E d \in TickSteps : Tick(d)

SpecUdpIdle == InitUdp /\ [][NextUdpIdle]_vars

(***************************************************************************)
(* SpecBoth: one enabled rule of protocol "both" is loaded and started;    *)
(* TCP clients and a UDP source of the same IP reach it while at most one  *)
(* connection per IP is allowed, upstream setup may fail on either         *)
(* protocol, and the operator may disable the rule.                        *)
(***************************************************************************)
BothRuleId == NextRuleIdOf(<<>>)

BothRule == ProxyRule(BothRuleId, ListenOne, TargetOne, TRUE, "both")

InitBoth == InitLoaded(<<BothRule>>, <<>>, UdpRateLimit, {})

BothTasks == {1}               \* one TCP connection at a time next to the UDP source

NextBoth ==
    \/ \E s \in OpSlots : StartupNext(s)
    \/ \E s \in OpSlots : StartRuleListeners(s)
    \/ \E s \in OpSlots : StartTcpListenerBind(s)
    \/ \E s \in OpSlots : StartTcpListenerPush(s)
    \/ \E s \in OpSlots : StartUdpListenerBind(s)
    \/ \E s \in OpSlots : StartUdpListenerPush(s)
    \/ \E s \in OpSlots : disable_rule(s, 1, BothRuleId)
    \/ \E s \in OpSlots : stop_tcp_listener(s)
    \/ \E s \in OpSlots : stop_udp_listener(s)
    \/ \E s \in OpSlots : SnapshotAndPersist(s)
    \/ \E s \in OpSlots : Respond(s)
    \/ \E sock \in lingering : TaskDrop(sock)
    \/ \E t \in BothTasks, ip \in RelayClients : AcceptOnListener(t, BothRuleId, ip)
    \/ \E t \in BothTasks : HandleConnectionBlocked(t)
    \/ \E t \in BothTasks : HandleConnectionConnectFailed(t)
    \/ \E t \in BothTasks, b \in RelayedBytes : HandleConnectionRelayed(t, b[1], b[2])
    \/ \E p \in UdpPorts, a \in IdleClients : UdpRecvFrom(p, a)
    \/ \E p \in UdpPorts : UdpRegister(p)
    \/ \E p \in UdpPorts : UdpRecordBlocked(p)
    \/ \E p \in UdpPorts, msg \in UpstreamErrors : UdpUpstreamFailed(p, msg)
    \/ \E p \in UdpPorts : UdpSessionInserted(p)
    \/ \E p \in UdpPorts : UdpForward(p)
    \/ \E p \in UdpPorts : UdpListenerBreak(p)
    \/ \E p \in UdpPorts : UdpTaskAborted(p)
    \/ \E p \in UdpPorts, a \in IdleClients : SessionUpstreamError(p, a)
    \/ \E p \in UdpPorts, a \in IdleClients : SessionCancelled(p, a)
    \/ \E p \in UdpPorts, a \in IdleClients : SessionFinalize(p, a)

SpecBoth == InitBoth /\ [][NextBoth]_vars

(***************************************************************************)
(* SpecHistory: the state file holds a history of about MAX_HISTORY        *)
(* entries (one below the cap, at the cap, two above it: load_state takes  *)
(* the array of the file as it is); connections are then admitted,         *)
(* rejected and finalized.  At most one connection per IP is allowed.      *)
(***************************************************************************)
HistoryLengths == {MAX_HISTORY - 1, MAX_HISTORY, MAX_HISTORY + 2}

LoadedEntry(i) ==
    [id |-> i, rule_id |-> 1, client_ip |-> "10.0.0.2", listen_port |-> ListenPort,
     bytes_up |-> 0, bytes_down |-> 0, blocked |-> FALSE, reason |-> NoReason]

LoadedHistory(n) == [i \in 1..n |-> LoadedEntry(i)]

(* connections are accepted while next_conn_id <= MaxLoadedConnId          *)
MaxLoadedConnId == MAX_HISTORY + MaxConnId

InitHistory ==
    \E n \in HistoryLengths : InitLoaded(<<>>, LoadedHistory(n), UdpRateLimit, {})

AcceptLoaded(t, rule_id, client_ip, listen_port) ==
    /\ next_conn_id <= MaxLoadedConnId
    /\ HandleConnectionAdmission(t, rule_id, client_ip, listen_port)
    /\ UNCHANGED admit_log

NextHistory ==
    \/ \E s \in OpSlots : StartupNext(s)
    \/ \E t \in Tasks, r \in ConnRuleIds, ip \in RelayClients :
          AcceptLoaded(t, r, ip, ListenPort)
    \/ \E t \in Tasks : HandleConnectionBlocked(t)
    \/ \E t \in Tasks : HandleConnectionConnectFailed(t)
    \/ \E t \in Tasks, b \in RelayedBytes : HandleConnectionRelayed(t, b[1], b[2])

SpecHistory == InitHistory /\ [][NextHistory]_vars

(***************************************************************************)
(* SpecIds: the process starts from a state file whose rules and history   *)
(* carry ids in any order and with gaps; rules are then created and        *)
(* deleted one call at a time while connections are admitted, rejected     *)
(* and finalized.                                                          *)
(***************************************************************************)
IdsRule(id) == ProxyRule(id, ListenOne, TargetOne, FALSE, "tcp")

IdsLoadedRules == {<<>>, <<IdsRule(2)>>, <<IdsRule(3), IdsRule(1)>>}

IdsLoadedHistory == <<LoadedEntry(4), LoadedEntry(2)>>

MaxIdsRuleId == 4      \* SpecIds creates rules while next_rule_id <= MaxIdsRuleId
MaxIdsConnId == 6      \* SpecIds accepts connections while next_conn_id <= MaxIdsConnId

InitIds ==
    \E rs \in IdsLoadedRules : InitLoaded(rs, IdsLoadedHistory, UdpRateLimit, {})

CreateIds(s) ==
    /\ next_rule_id <= MaxIdsRuleId
    /\ CreateRuleCall(s, 1, ListenOne, TargetOne, Some(FALSE), None)

AcceptIds(t, rule_id, client_ip) ==
    /\ next_conn_id <= MaxIdsConnId
    /\ HandleConnectionAdmission(t, rule_id, client_ip, ListenPort)
    /\ UNCHANGED admit_log

NextIds ==
    \/ \E s \in OpSlots : StartupNext(s)
    \/ \E s \in OpSlots : CreateIds(s)
    \/ \E s \in OpSlots, id \in 1..MaxIdsRuleId : remove_rule(s, 1, id)
    \/ \E s \in OpSlots : stop_tcp_listener(s)
    \/ \E s \in OpSlots : stop_udp_listener(s)
    \/ \E s \in OpSlots : RemoveRuleLocked(s)
    \/ \E s \in OpSlots : Respond(s)
    \/ \E t \in Tasks, r \in ConnRuleIds, ip \in RelayClients : AcceptIds(t, r, ip)
    \/ \E t \in Tasks : HandleConnectionBlocked(t)
    \/ \E t \in Tasks : HandleConnectionConnectFailed(t)

SpecIds == InitIds /\ [][NextIds]_vars

(***************************************************************************)
(* Claims about the admission controller and the connection registry.      *)
(***************************************************************************)
CountActive(ip) == Cardinality({c \in DOMAIN active : active[c].client_ip = ip})

(* the task t took a connection in this step                               *)
Accepting(t) == conns[t].pc = "idle" /\ conns'[t].pc # "idle"

(* C1: the per-IP counters sum to the number of active records, and every  *)
(* stored counter is at least 1 (a key is dropped at zero).                *)
C1_CounterConsistency ==
    /\ MapSum(active_by_ip) = Cardinality(DOMAIN active)
    /\ \A ip \in DOMAIN active_by_ip : active_by_ip[ip] >= 1

(* C1 witness: one IP still has an active connection after another of its  *)
(* connections was finalized, and a second IP's key was dropped at zero.   *)
C1_Witness ==
    \E a \in IPs, b \in IPs :
        /\ a # b
        /\ a \in DOMAIN active_by_ip /\ active_by_ip[a] = 1
        /\ b \notin DOMAIN active_by_ip
        /\ \E i \in DOMAIN history : ~history[i].blocked /\ history[i].client_ip = a
        /\ \E i \in DOMAIN history : ~history[i].blocked /\ history[i].client_ip = b

(* C2: an admission succeeds only below both caps, and with the rate-limit  *)
(* config unchanged no step lifts the active set or an IP's active count    *)
(* above its cap.                                                          *)
C2_ConcurrencyCaps ==
    [][/\ \A t \in Tasks :
            (Accepting(t) /\ conns'[t].pc = "admitted") =>
                /\ Cardinality(DOMAIN active) < rate_limit.max_concurrent_total
                /\ CountActive(conns'[t].client_ip)
                       < rate_limit.max_concurrent_connections_per_ip
       /\ (rate_limit' = rate_limit
             /\ Cardinality(DOMAIN active) <= rate_limit.max_concurrent_total)
            => Cardinality(DOMAIN active') <= rate_limit.max_concurrent_total
       /\ \A ip \in IPs :
            (rate_limit' = rate_limit
              /\ CountActive(ip) <= rate_limit.max_concurrent_connections_per_ip)
            => CountActive(ip)' <= rate_limit.max_concurrent_connections_per_ip
      ]_vars

(* C2 witness: a connection was turned away at the total cap while the     *)
(* active set is full to the total cap.                                    *)
C2_Witness ==
    \E t \in Tasks :
        /\ conns[t].pc = "rejected"
        /\ conns[t].reason = Reason("Too many total connections", 0, "")
        /\ Cardinality(DOMAIN active) = rate_limit.max_concurrent_total
        /\ Cardinality(DOMAIN active) >= 1

(* admissions of ip logged in the closed window [lo, lo + 60 s]            *)
AdmitsWithin(ip, lo) ==
    Cardinality({i \in DOMAIN admit_log :
                    /\ admit_log[i].ip = ip
                    /\ admit_log[i].at >= lo
                    /\ admit_log[i].at <= lo + RATE_WINDOW_SECS})

RateWindowBound ==
    \A i \in DOMAIN admit_log :
        AdmitsWithin(admit_log[i].ip, admit_log[i].at)
            <= rate_limit.max_new_connections_per_minute

(* C3: per IP at most max_new_connections_per_minute admissions succeed in *)
(* any 60 s window, and an attempt that would exceed it (the caps not       *)
(* being reached) is rejected with "Rate limit exceeded".                  *)
C3_RateWindow ==
    [][/\ RateWindowBound'
       /\ \A t \in Tasks :
            (Accepting(t)
              /\ AdmitsWithin(conns'[t].client_ip, now - RATE_WINDOW_SECS)
                    >= rate_limit.max_new_connections_per_minute)
            => /\ conns'[t].pc = "rejected"
               /\ (~TotalCapReached /\ ~IpCapReached(conns'[t].client_ip))
                    => conns'[t].reason = Reason("Rate limit exceeded", 0, "")
      ]_vars

(* C3 witness: a rejection for the rate limit while an admission of the    *)
(* same IP is exactly 60 s old.                                            *)
C3_Witness ==
    \E t \in Tasks :
        /\ conns[t].pc = "rejected"
        /\ conns[t].reason = Reason("Rate limit exceeded", 0, "")
        /\ \E i \in DOMAIN admit_log :
              /\ admit_log[i].ip = conns[t].client_ip
              /\ now - admit_log[i].at = RATE_WINDOW_SECS

(* the nine checks of the admission order, each with the reason it gives   *)
AdmissionChecks(ip, port) ==
    LET country == IF geo_db = NONE THEN NONE ELSE lookup_country(ip)
        recent == {i \in DOMAIN MapGet(rate_counters, ip, <<>>) :
                      now - rate_counters[ip][i] <= RATE_WINDOW_SECS}
    IN
    << [fails |-> allowlist_enabled /\ ip \notin allowlist,
        reason |-> Reason("Not in allowlist", 0, "")],
       [fails |-> MapGet(allowlist_ports, port, {}) # {}
                  /\ ip \notin MapGet(allowlist_ports, port, {}),
        reason |-> Reason("Not in allowlist for port", port, "")],
       [fails |-> country # NONE /\ country \in MapGet(geo_port_blocklist, port, {}),
        reason |-> Reason("Geo blocked for port", port, country)],
       [fails |-> country # NONE /\ country \in geo_blocklist,
        reason |-> Reason("Geo blocked", 0, country)],
       [fails |-> ip \in blocklist,
        reason |-> Reason("Blocked by rule", 0, "")],
       [fails |-> ip \in MapGet(port_blocklist, port, {}),
        reason |-> Reason("Blocked for port", port, "")],
       [fails |-> Cardinality(DOMAIN active) >= rate_limit.max_concurrent_total,
        reason |-> Reason("Too many total connections", 0, "")],
       [fails |-> CountActive(ip) >= rate_limit.max_concurrent_connections_per_ip,
        reason |-> Reason("Too many active connections for IP", 0, "")],
       [fails |-> Cardinality(recent) >= rate_limit.max_new_connections_per_minute,
        reason |-> Reason("Rate limit exceeded", 0, "")] >>

FailingChecks(ip, port) == {i \in 1..9 : AdmissionChecks(ip, port)[i].fails}

FirstFailing(ip, port) ==
    CHOOSE i \in FailingChecks(ip, port) : \A j \in FailingChecks(ip, port) : i <= j

(* C4: an admission returns the reason of the first failing check in the   *)
(* order global allowlist, port allowlist, port geo, global geo, global    *)
(* blocklist, port blocklist, total cap, per-IP cap, rate limit; it         *)
(* succeeds only when none fails.                                          *)
C4_AdmissionOrder ==
    [][\A t \in Tasks :
          Accepting(t) =>
             LET ip == conns'[t].client_ip
                 port == conns'[t].listen_port
             IN IF FailingChecks(ip, port) = {}
                THEN conns'[t].pc = "admitted"
                ELSE /\ conns'[t].pc = "rejected"
                     /\ conns'[t].reason
                           = AdmissionChecks(ip, port)[FirstFailing(ip, port)].reason
      ]_vars

(* C4 witness: a client outside the port's allowlist and in the global     *)
(* blocklist was rejected with the allowlist reason.                       *)
C4_Witness ==
    \E t \in Tasks :
        /\ conns[t].pc = "rejected"
        /\ conns[t].reason = Reason("Not in allowlist for port", conns[t].listen_port, "")
        /\ conns[t].client_ip \in blocklist
        /\ PortAllowFails(conns[t].client_ip, conns[t].listen_port)

(* C5: on a port whose allowlist is non-empty a client outside it is never *)
(* admitted, and is rejected with the port's reason once the global        *)
(* allowlist lets it through; a listed client, or any client on a port     *)
(* without allowlist entries, is not rejected by this check.               *)
C5_PortAllowlist ==
    [][\A t \in Tasks :
          Accepting(t) =>
             LET ip == conns'[t].client_ip
                 port == conns'[t].listen_port
                 listed == MapGet(allowlist_ports, port, {})
                 port_reason == Reason("Not in allowlist for port", port, "")
             IN /\ (listed # {} /\ ip \notin listed) =>
                      /\ conns'[t].pc = "rejected"
                      /\ ~(allowlist_enabled /\ ip \notin allowlist)
                            => conns'[t].reason = port_reason
                /\ (listed = {} \/ ip \in listed) => conns'[t].reason # port_reason
      ]_vars

(* C5 witness: on the same port one connection of a then-listed client is  *)
(* admitted and another, the client no longer listed, is rejected with the *)
(* port's reason.                                                          *)
C5_Witness ==
    \E t \in Tasks, u \in Tasks :
        /\ conns[t].pc = "rejected"
        /\ conns[t].reason = Reason("Not in allowlist for port", PolicyPort, "")
        /\ conns[u].pc = "admitted"
        /\ conns[u].listen_port = PolicyPort
        /\ PolicyPort \in DOMAIN allowlist_ports
        /\ conns[t].client_ip \notin allowlist_ports[PolicyPort]

(***************************************************************************)
(* Claims about the rule engine.                                           *)
(***************************************************************************)
Quiescent == \A s \in OpSlots : ops[s].pc \in {"idle", "returned"}

PortsOf(handles) == [i \in DOMAIN handles |-> handles[i].port]

(* the listen ports an enabled rule's expanded targets ask for             *)
ExpandedPorts(rule, uses) ==
    LET e == expand_listen_targets(rule.listen_addr, rule.target_addr)
    IN IF rule.enabled /\ uses /\ e.ok
       THEN [i \in DOMAIN e.targets |-> e.targets[i].listen_port]
       ELSE <<>>

RuleOf(rs, id) == IF RulePosition(rs, id) = 0 THEN NoRule ELSE rs[RulePosition(rs, id)]

(* C6: with no rule operation in progress, every enabled rule's TCP and    *)
(* UDP handles are exactly the listeners of its expanded targets for the   *)
(* protocols it uses, and a disabled rule has no handles.                  *)
C6_ListenersMatchRules ==
    Quiescent =>
        \A i \in DOMAIN rules :
            /\ PortsOf(MapGet(listeners, rules[i].id, <<>>))
                  = ExpandedPorts(rules[i], uses_tcp(rules[i].protocol))
            /\ PortsOf(MapGet(udp_listeners, rules[i].id, <<>>))
                  = ExpandedPorts(rules[i], uses_udp(rules[i].protocol))

(* C6 witness: with no call open, an enabled rule listening on port 0 has  *)
(* two TCP handles for its one expanded target.                            *)
C6_Witness ==
    /\ Quiescent
    /\ \E i \in DOMAIN rules :
          /\ rules[i].enabled
          /\ rules[i].listen_addr = ListenAny
          /\ Len(ExpandedPorts(rules[i], TRUE)) = 1
          /\ Len(MapGet(listeners, rules[i].id, <<>>)) = 2

(* C7: once every concurrent enable, disable, update and delete call has   *)
(* returned, no listener handle is registered for a rule whose enabled     *)
(* flag is false.                                                          *)
C7_NoListenerWhenDisabled ==
    Quiescent =>
        \A i \in DOMAIN rules :
            ~rules[i].enabled =>
                /\ rules[i].id \notin DOMAIN listeners
                /\ rules[i].id \notin DOMAIN udp_listeners

(* C7 witness: every call has returned, enable answered ok, and the rule   *)
(* is disabled with a listener registered.                                 *)
C7_Witness ==
    /\ Quiescent
    /\ \E s \in OpSlots : ops[s].kind = "enable" /\ ops[s].result = "ok"
    /\ \E i \in DOMAIN rules :
          /\ ~rules[i].enabled
          /\ rules[i].id \in (DOMAIN listeners) \cup (DOMAIN udp_listeners)

(* the rule was enabled with its listeners running when the call began     *)
RunningBefore(op) ==
    LET rule == RuleOf(op.pre.rules, op.id)
    IN /\ rule.enabled
       /\ PortsOf(MapGet(op.pre.listeners, op.id, <<>>))
             = ExpandedPorts(rule, uses_tcp(rule.protocol))
       /\ PortsOf(MapGet(op.pre.udp_listeners, op.id, <<>>))
             = ExpandedPorts(rule, uses_udp(rule.protocol))
       /\ op.id \in (DOMAIN op.pre.listeners) \cup (DOMAIN op.pre.udp_listeners)

SameListeners(op) ==
    /\ MapGet(listeners, op.id, <<>>) = MapGet(op.pre.listeners, op.id, <<>>)
    /\ MapGet(udp_listeners, op.id, <<>>) = MapGet(op.pre.udp_listeners, op.id, <<>>)

(* C8: enable on a rule already enabled with its listeners running, and    *)
(* disable on a disabled rule, leave the enabled flag and the rule's       *)
(* listeners as the first call left them.                                  *)
C8_EnableDisableIdempotent ==
    \A s \in OpSlots :
        LET op == ops[s] IN
        /\ (op.pc = "returned" /\ op.kind = "enable" /\ RunningBefore(op)) =>
              /\ RuleOf(rules, op.id).enabled
              /\ SameListeners(op)
        /\ (op.pc = "returned" /\ op.kind = "disable"
             /\ RulePosition(op.pre.rules, op.id) # 0
             /\ ~RuleOf(op.pre.rules, op.id).enabled) =>
              /\ ~RuleOf(rules, op.id).enabled
              /\ SameListeners(op)

(* C8 witness: enable on a rule running on port 7000 returned the listener *)
(* error, the rule disabled and its listener gone.                         *)
C8_Witness ==
    \E s \in OpSlots :
        /\ ops[s].pc = "returned"
        /\ ops[s].kind = "enable"
        /\ RunningBefore(ops[s])
        /\ ops[s].rule.listen_addr = ListenOne
        /\ ops[s].result = "Listener failed"
        /\ ~RuleOf(rules, ops[s].id).enabled
        /\ ops[s].id \notin DOMAIN listeners

(* the rule is disabled, in the state and in the snapshot last persisted,  *)
(* and has no listener of either kind                                      *)
DisabledAndTornDown(id) ==
    /\ ~RuleOf(rules, id).enabled
    /\ id \notin DOMAIN listeners
    /\ id \notin DOMAIN udp_listeners
    /\ \A i \in DOMAIN last_snapshot.rules :
          last_snapshot.rules[i].id = id => ~last_snapshot.rules[i].enabled
    /\ RulePosition(rules, id) # 0 => RulePosition(last_snapshot.rules, id) # 0

(* C9: when starting a rule's listeners fails (create, enable, update,     *)
(* startup), the call answers with the listener error (the startup loop    *)
(* logs it), the rule's listeners are all torn down, its flag ends false   *)
(* and a snapshot with the rule disabled is persisted.                     *)
C9_StartFailureDisables ==
    \A s \in OpSlots :
        LET op == ops[s] IN
        /\ (op.pc = "returned" /\ op.start_failed /\ op.kind # "startup") =>
              /\ op.result = "Listener failed"
              /\ DisabledAndTornDown(op.id)
        /\ (op.kind = "startup" /\ op.pc \in {"startup_next", "returned"}) =>
              \A id \in op.failed : DisabledAndTornDown(id)

(* C9 witness: a call returned after its second bind failed, the first     *)
(* listener having been registered.                                        *)
C9_Witness ==
    \E s \in OpSlots :
        /\ ops[s].pc = "returned"
        /\ ops[s].kind # "startup"
        /\ ops[s].start_failed
        /\ ops[s].idx = Len(ListenTwoPorts)
        /\ ops[s].rule.listen_addr = ListenTwo
        /\ RulePosition(rules, ops[s].id) # 0

(* a port written in a spec the claim calls valid                          *)
ValidPort(n) == n \in 1..U16_MAX

ValidAddr(addr) ==
    /\ addr # BlankAddr
    /\ ValidPort(addr.lo) /\ ValidPort(addr.hi)
    /\ addr.lo <= addr.hi
    /\ (addr.hi - addr.lo) + 1 <= MAX_PORT_RANGE
    /\ ~addr.range => addr.hi = addr.lo

PortCount(addr) == (addr.hi - addr.lo) + 1

ValidPair(pair) ==
    /\ ValidAddr(pair.listen_addr)
    /\ ValidAddr(pair.target_addr)
    /\ PortCount(pair.target_addr) \in {1, PortCount(pair.listen_addr)}

(* C10: a create or update whose listen/target spec is invalid (bad port,  *)
(* zero port, too-wide range, range mismatch) is rejected and leaves the   *)
(* rule list, next_rule_id and the persisted snapshot as they were.        *)
C10_InvalidSpecRejected ==
    \A s \in OpSlots :
        LET op == ops[s] IN
        (op.pc = "returned" /\ op.kind \in {"create", "update"} /\ ~ValidPair(op.asked)) =>
            /\ op.result # "ok"
            /\ rules = op.pre.rules
            /\ next_rule_id = op.pre.next_rule_id
            /\ last_snapshot = op.pre.snapshot

(* C10 witness: a create with mismatched ranges answered with the listener *)
(* error after the rule was stored, next_rule_id advanced and a snapshot   *)
(* persisted.                                                              *)
C10_Witness ==
    \E s \in OpSlots :
        /\ ops[s].pc = "returned"
        /\ ops[s].kind = "create"
        /\ ops[s].asked = AddrPair(ListenThree, TargetTwo)
        /\ ops[s].result = "Listener failed"
        /\ RulePosition(rules, ops[s].id) # 0
        /\ next_rule_id = ops[s].pre.next_rule_id + 1
        /\ last_snapshot # ops[s].pre.snapshot

(***************************************************************************)
(* Claims about connection teardown and the relay.                         *)
(***************************************************************************)
ActiveOfRule(rule_id) == {c \in DOMAIN active : active[c].rule_id = rule_id}

DisableReturned(rule_id) ==
    \E s \in OpSlots :
        /\ ops[s].kind = "disable"
        /\ ops[s].id = rule_id
        /\ ops[s].pc = "returned"
        /\ ops[s].result = "ok"

(* C11: once disable(id) has returned, the rule's admitted TCP connections *)
(* are ended by the program itself: eventually the active set holds no     *)
(* record of the rule, without a peer closing or sending anything.         *)
C11_DisableEndsConnections ==
    DisableReturned(RelayRuleId) ~> (ActiveOfRule(RelayRuleId) = {})

(* C11 witness: disable has returned, the rule has no listener left, and a *)
(* connection of the rule is still relaying with both pumps running.       *)
C11_Witness ==
    /\ DisableReturned(RelayRuleId)
    /\ RelayRuleId \notin DOMAIN listeners
    /\ \E t \in Tasks :
          /\ conns[t].pc = "relay"
          /\ conns[t].up = "running" /\ conns[t].down = "running"
          /\ conns[t].conn_id \in ActiveOfRule(RelayRuleId)

ConnIds == 1..MaxConnId

(* one pump of the relay of connection c has ended                         *)
PumpEnded(c) ==
    \E t \in Tasks :
        /\ conns[t].pc = "relay"
        /\ conns[t].conn_id = c
        /\ conns[t].up \in PumpEnds \/ conns[t].down \in PumpEnds

(* C14: once one pump of a relay has ended (EOF or error) the connection   *)
(* is finalized by the program itself, whatever the other direction does.  *)
C14_EitherPumpEndsRelay ==
    \A c \in ConnIds : PumpEnded(c) ~> (c \notin DOMAIN active)

(* C14 witness: the client-to-server pump has ended on EOF, the other pump *)
(* is still running and the connection is still in the active set.         *)
C14_Witness ==
    \E t \in Tasks :
        /\ conns[t].pc = "relay"
        /\ conns[t].up = "eof"
        /\ conns[t].down = "running"
        /\ conns[t].conn_id \in DOMAIN active

(* the history entry a step appended                                       *)
Appended == history'[Len(history')]

(* C15: the history entry of a relay that ended on an I/O error carries    *)
(* the error as its reason; the reason is empty only for a relay that      *)
(* ended without error.                                                    *)
C15_RelayErrorReason ==
    [][\A t \in Tasks :
          (conns[t].pc = "relay" /\ conns'[t].pc = "idle") =>
             /\ Len(history') = Len(history) + 1
             /\ Appended.id = conns[t].conn_id
             /\ (Appended.reason = NoReason)
                   <=> (conns[t].up = "eof" /\ conns[t].down = "eof")
      ]_vars

(* C15 witness: both pumps of a relay have ended, one of them on an error, *)
(* and the relay is about to be recorded.                                  *)
C15_Witness ==
    \E t \in Tasks :
        /\ conns[t].pc = "relay"
        /\ conns[t].up = "error"
        /\ conns[t].down \in PumpEnds
        /\ conns[t].conn_id \in DOMAIN active

(* the UDP listener of port p and all its session tasks are gone           *)
UdpListenerGone(p) == udp_task[p].pc = "none" /\ DOMAIN sessions[p] = {}

(* C12: once the UDP rule's listener has been cancelled (disable returned) *)
(* every connection of the listener leaves the active set by the program's *)
(* own steps, the admission the listener task had in progress included.    *)
C12_UdpCancelEndsSessions ==
    DisableReturned(UdpRuleId) ~> (\A c \in DOMAIN active : active[c].rule_id # UdpRuleId)

(* C12 witness: disable has returned, the listener task and every session  *)
(* task are gone, and a connection of the rule is still in the active set. *)
C12_Witness ==
    /\ DisableReturned(UdpRuleId)
    /\ \A p \in UdpPorts : UdpListenerGone(p)
    /\ ActiveOfRule(UdpRuleId) # {}

(* the session of a at port p is removed in this step after its idle check *)
(* said idle                                                               *)
IdleReap(p, a) ==
    /\ a \in DOMAIN sessions[p]
    /\ sessions[p][a].broke = "idle"
    /\ a \notin DOMAIN sessions'[p]
    /\ a \in DOMAIN clients[p]

(* C13: a session reaped by the idle check had no traffic in either        *)
(* direction for more than UDP_IDLE_TIMEOUT seconds; the reap removes the  *)
(* entry and the active record and appends one entry, blocked = FALSE,     *)
(* reason None.                                                            *)
C13_IdleReap ==
    [][\A p \in UdpPorts, a \in UdpClients :
          IdleReap(p, a) =>
             /\ now - clients[p][a].last_seen > UDP_IDLE_TIMEOUT
             /\ a \notin DOMAIN clients'[p]
             /\ clients[p][a].conn_id \notin DOMAIN active'
             /\ Len(history') = Len(history) + 1
             /\ Appended.id = clients[p][a].conn_id
             /\ ~Appended.blocked
             /\ Appended.reason = NoReason
      ]_vars

(* C13 witness: the idle check has said idle, the session is about to be   *)
(* removed, and a datagram of the client was counted on the entry at the   *)
(* present second.                                                         *)
C13_Witness ==
    \E p \in UdpPorts, a \in UdpClients :
        /\ a \in DOMAIN sessions[p]
        /\ sessions[p][a].pc = "remove"
        /\ sessions[p][a].broke = "idle"
        /\ a \in DOMAIN clients[p]
        /\ clients[p][a].last_seen = now
        /\ clients[p][a].bytes_up > 0

(* C13, the part that holds: the idle check itself says idle only for an   *)
(* entry that is older than UDP_IDLE_TIMEOUT.                              *)
C13_IdleCheckExact ==
    [][\A p \in UdpPorts, a \in UdpClients :
          (/\ a \in DOMAIN sessions[p] /\ a \in DOMAIN sessions'[p]
           /\ sessions[p][a].broke = "" /\ sessions'[p][a].broke = "idle"
           /\ a \in DOMAIN clients[p])
             => now - clients[p][a].last_seen > UDP_IDLE_TIMEOUT
      ]_vars

(***************************************************************************)
(* Claims about what the history records.                                  *)
(***************************************************************************)
(* this step appends exactly the entry e to the history                    *)
AppendsOnly(e) ==
    /\ Len(history') = Len(history) + 1
    /\ SubSeq(history', 1, Len(history)) = history
    /\ Appended = e

RegistryUntouched == active' = active /\ active_by_ip' = active_by_ip

BlockedEntry(id, rule_id, client_ip, listen_port, reason) ==
    [id |-> id, rule_id |-> rule_id, client_ip |-> client_ip,
     listen_port |-> listen_port, bytes_up |-> 0, bytes_down |-> 0,
     blocked |-> TRUE, reason |-> reason]

Finalized(c, errors) ==
    /\ c \in DOMAIN active
    /\ c \notin DOMAIN active'
    /\ DOMAIN active' = DOMAIN active \ {c}
    /\ LET ip == active[c].client_ip
           left == MapGet(active_by_ip, ip, 0) - 1 IN
       /\ MapGet(active_by_ip', ip, 0) = left
       /\ left = 0 => ip \notin DOMAIN active_by_ip'
       /\ left = Cardinality({d \in DOMAIN active' : active'[d].client_ip = ip})
    /\ \E msg \in errors :
          AppendsOnly([id |-> c, rule_id |-> active[c].rule_id,
                       client_ip |-> active[c].client_ip,
                       listen_port |-> active[c].listen_port,
                       bytes_up |-> 0, bytes_down |-> 0,
                       blocked |-> FALSE, reason |-> Reason(msg, 0, "")])

ConnectErrors == {"Target connect failed"}

C18_HistoryBound == Len(history) <= MAX_HISTORY

(* C18 witness: the program has just loaded a history longer than the cap  *)
(* and no connection has been handled yet.                                 *)
C18_Witness ==
    /\ Len(history) > MAX_HISTORY
    /\ next_conn_id = NextConnIdOf(history)
    /\ \A t \in Tasks : conns[t].pc = "idle"
    /\ active = EmptyMap

(* C18, the part that holds: an append leaves the newest MAX_HISTORY of    *)
(* the old entries followed by the new one, in their order.                *)
C18_AppendDropsOldest ==
    [][history' # history =>
          \E e \in {Appended} :
             LET all == Append(history, e) IN
             /\ Len(history') = IF Len(all) > MAX_HISTORY THEN MAX_HISTORY ELSE Len(all)
             /\ history' = SubSeq(all, Len(all) - Len(history') + 1, Len(all))
      ]_vars

(***************************************************************************)
(* Claims about identifiers.                                               *)
(***************************************************************************)
(* the connection ids handed out so far that are still on record: to       *)
(* admissions (active, or ended and in the history) and to blocked records *)
IssuedConnIds == DOMAIN active \cup {history[i].id : i \in DOMAIN history}

(* the ids this step admits                                                *)
Admitted == DOMAIN active' \ DOMAIN active

(* C19: admissions take the state lock one at a time, and the id an        *)
(* admission returns is larger than the id of every earlier admission and  *)
(* of every blocked record written before it: it is the counter's value,   *)
(* the counter moves past it and never moves back.                         *)
C19_AdmissionIdOrder ==
    [][/\ next_conn_id' >= next_conn_id
       /\ Cardinality(Admitted) <= 1
       /\ \A c \in Admitted :
             /\ c = next_conn_id
             /\ next_conn_id' = c + 1
             /\ \A a \in IssuedConnIds : a < c
      ]_vars

(* C19 witness: an admission A has ended, a blocked record was written     *)
(* after it, and an admission B made after both is active: the three ids   *)
(* are in the order of the lock.                                           *)
C19_Witness ==
    \E i, j \in DOMAIN history :
        /\ i < j
        /\ ~history[i].blocked
        /\ history[j].blocked
        /\ history[i].id < history[j].id
        /\ \E b \in DOMAIN active : history[j].id < b

RuleIdsOf(rs) == {rs[i].id : i \in DOMAIN rs}

(* every id on record is below its counter                                 *)
IdsBelowCounters ==
    /\ \A r \in RuleIdsOf(rules) : r < next_rule_id
    /\ \A c \in IssuedConnIds : c < next_conn_id

(* C20: rule ids and connection ids are handed out in increasing order and *)
(* never twice: from load_state on every id on record is below its         *)
(* counter, an id that appears is the counter's value and the counter      *)
(* moves past it, and no step (a deletion included) moves a counter back.  *)
C20_IdsNeverReused ==
    /\ []IdsBelowCounters
    /\ [][/\ next_rule_id' >= next_rule_id
          /\ next_conn_id' >= next_conn_id
          /\ Len(rules') > Len(rules) => RuleIdsOf(rules') # RuleIdsOf(rules)
          /\ \A r \in RuleIdsOf(rules') \ RuleIdsOf(rules) :
                r = next_rule_id /\ next_rule_id' = r + 1
          /\ \A c \in IssuedConnIds' \ IssuedConnIds :
                c = next_conn_id /\ next_conn_id' = c + 1
         ]_vars

(* C20 witness: the process started without rules, the rule created first  *)
(* was deleted, and the create call that followed has returned with the    *)
(* next id, not the freed one; a connection has been given the id above    *)
(* the largest id of the loaded history.                                   *)
C20_Witness ==
    /\ \E s \in OpSlots :
          /\ ops[s].kind = "create"
          /\ ops[s].pc = "returned"
          /\ ops[s].result = "ok"
          /\ ops[s].id = NextRuleIdOf(<<>>) + 1
    /\ RuleIdsOf(rules) = {NextRuleIdOf(<<>>) + 1}
    /\ NextConnIdOf(IdsLoadedHistory) \in IssuedConnIds

(***************************************************************************)
(* Rate-limit floor                                                        *)
(***************************************************************************)

RateLimitFields ==
    {"max_new_connections_per_minute", "max_concurrent_connections_per_ip",
     "max_concurrent_total"}

(* C26: in every reachable state, the one after the state file is loaded   *)
(* included, each of the three rate-limit fields is at least 1.            *)
C26_RateLimitAtLeastOne ==
    \A f \in RateLimitFields : rate_limit[f] >= 1

(* C26 witness: the rate limit in effect has a field the loaded file set   *)
(* to 0 and a field of value 1 next to it.                                 *)
C26_Witness ==
    /\ rate_limit.max_concurrent_total = 0
    /\ rate_limit.max_new_connections_per_minute = 1

(* C26, the update half: a step that changes the rate limit is an update   *)
(* that stores max(value, 1) in each field the request carries and leaves  *)
(* the other fields as they were.                                          *)
C26_UpdateStoresMax ==
    [][rate_limit' # rate_limit =>
          \E q \in RateLimitRequests :
             LET stored(v, old) == IF v = Absent THEN old ELSE Max2(v, 1)
             IN  /\ rate_limit'.max_new_connections_per_minute =
                        stored(q[1], rate_limit.max_new_connections_per_minute)
                 /\ rate_limit'.max_concurrent_connections_per_ip =
                        stored(q[2], rate_limit.max_concurrent_connections_per_ip)
                 /\ rate_limit'.max_concurrent_total =
                        stored(q[3], rate_limit.max_concurrent_total)
                 /\ \E i \in 1..3 : q[i] # Absent
      ]_vars

(***************************************************************************)
(* SpecPersist: rate-limit updates and the detached save_snapshot tasks    *)
(* they spawn, with state.json observed.  The values posted have one       *)
(* digit, so every document has the same size field by field.              *)
(***************************************************************************)
MaxWrites == 2         \* save_snapshot tasks in flight at a time
MaxPassed == 4         \* documents dispatched, the loaded one included

(* where a write call that takes a part of the bytes stops: at the end of  *)
(* one of the last fields of the document                                  *)
ChunkEnds == (DocCells - 3)..DocCells

PersistLimits == 1..MaxLimit

PersistRequests ==
    {q \in RateLimitRequests : \E i \in 1..3 : q[i] \in PersistLimits}

(* save_snapshot, app.rs:1713-1717: tokio::fs::write opens state.json with *)
(* create and truncate                                                     *)
SaveSnapshotCreate(i) ==
    /\ fs.tracked
    /\ i \in DOMAIN fs.writes
    /\ fs.writes[i].pos = 0
    /\ fs' = [fs EXCEPT !.file = <<>>, !.holes = {}, !.writes[i].pos = 1]
    /\ UNCHANGED <<policy_vars, rate_limit, registry_vars, now, conns, udp_vars,
                   last_snapshot, engine_vars, admit_log>>

RemoveAt(seq, i) == [k \in 1..(Len(seq) - 1) |-> IF k < i THEN seq[k] ELSE seq[k + 1]]

(* the file after cells lo..hi of doc are written at their offsets; a cell *)
(* of the gap before lo is a hole, whatever the sequence holds there       *)
WriteCells(file, doc, lo, hi) ==
    [k \in 1..Max2(Len(file), hi) |->
        IF k \in lo..hi \/ k > Len(file) THEN doc[k] ELSE file[k]]

HolesAfterWrite(file, holes, lo, hi) ==
    (holes \cup ((Len(file) + 1)..(lo - 1))) \ (lo..hi)

(* save_snapshot, app.rs:1713-1717: write_all hands the rest of the bytes  *)
(* to write, which takes them all (n = DocCells, the task ends) or a part  *)
SaveSnapshotWrite(i, n) ==
    /\ fs.tracked
    /\ i \in DOMAIN fs.writes
    /\ fs.writes[i].pos >= 1
    /\ n \in ChunkEnds
    /\ n >= fs.writes[i].pos
    /\ fs' = [fs EXCEPT
                !.file = WriteCells(@, fs.writes[i].doc, fs.writes[i].pos, n),
                !.holes = HolesAfterWrite(fs.file, @, fs.writes[i].pos, n),
                !.writes = IF n = DocCells THEN RemoveAt(@, i)
                           ELSE [@ EXCEPT ![i].pos = n + 1]]
    /\ UNCHANGED <<policy_vars, rate_limit, registry_vars, now, conns, udp_vars,
                   last_snapshot, engine_vars, admit_log>>

(* serde_json::from_slice succeeds on the file: every field is there       *)
FileReadable ==
    /\ Len(fs.file) = DocCells
    /\ fs.holes = {}

PersistUpdate(q) ==
    /\ Len(fs.writes) < MaxWrites
    /\ Cardinality(fs.passed) < MaxPassed
    /\ UpdateRateLimit(q[1], q[2], q[3])

InitPersist ==
    /\ InitEmptyPolicy
    /\ rate_limit = [max_new_connections_per_minute |-> 1,
                     max_concurrent_connections_per_ip |-> 1,
                     max_concurrent_total |-> 1]
    /\ InitRegistry
    /\ InitNoRules
    /\ last_snapshot = snapshot_state
    /\ fs = TrackedFs(Doc(snapshot_state))

NextPersist ==
    \/ \E q \in PersistRequests : PersistUpdate(q)
    \/ \E i \in 1..MaxWrites : SaveSnapshotCreate(i)
    \/ \E i \in 1..MaxWrites, n \in ChunkEnds : SaveSnapshotWrite(i, n)

SpecPersist == InitPersist /\ [][NextPersist]_vars

(* C22: whenever state.json holds a readable document, the document is the *)
(* snapshot of a state the system passed through, writes in flight or not. *)
C22_ReadableIsPassedState ==
    (fs.tracked /\ FileReadable) => fs.file \in fs.passed

(* C22 witness: two save_snapshot tasks are in flight, one of them part    *)
(* way through its document, and state.json is readable.                   *)
C22_Witness ==
    /\ fs.tracked
    /\ Len(fs.writes) = 2
    /\ \E i \in DOMAIN fs.writes : fs.writes[i].pos > 1
    /\ FileReadable

(* C23: once every dispatched save_snapshot task has ended, state.json     *)
(* holds the snapshot handed to persist_state last.                        *)
C23_QuiescentFileIsLatest ==
    (fs.tracked /\ fs.writes = <<>>) => fs.file = Doc(last_snapshot)

(* C23 witness: two mutations have been made, every task they spawned has  *)
(* ended, and the file is a complete document.                             *)
C23_Witness ==
    /\ fs.tracked
    /\ fs.writes = <<>>
    /\ Cardinality(fs.passed) >= 3
    /\ FileReadable

(***************************************************************************)
(* load_state as a function of the persisted document, and SpecRoundTrip:  *)
(* the process starts from a state file and operators edit the policy      *)
(* store; country codes arrive as typed.                                   *)
(***************************************************************************)

(* a string as its characters, for the codes that occur                    *)
Chars(s) ==
    CASE s = "RU" -> <<"R", "U">>
      [] s = "ru" -> <<"r", "u">>
      [] s = "Ru" -> <<"R", "u">>
      [] s = "DE" -> <<"D", "E">>
      [] s = "de" -> <<"d", "e">>

CodeStrings == {"RU", "ru", "Ru", "DE", "de"}

Str(chars) == CHOOSE s \in CodeStrings : Chars(s) = chars

AsciiLower == {"r", "u", "d", "e"}

AsciiUpper == {"R", "U", "D", "E"}

UpperChar(ch) ==
    CASE ch = "r" -> "R" [] ch = "u" -> "U" [] ch = "d" -> "D" [] ch = "e" -> "E"
      [] OTHER -> ch

(* str::to_uppercase                                                       *)
to_uppercase(s) == Str([i \in DOMAIN Chars(s) |-> UpperChar(Chars(s)[i])])

RECURSIVE TrimStart(_)
TrimStart(chars) ==
    IF Len(chars) > 0 /\ Head(chars) = " " THEN TrimStart(Tail(chars)) ELSE chars

RECURSIVE TrimEnd(_)
TrimEnd(chars) ==
    IF Len(chars) > 0 /\ chars[Len(chars)] = " "
    THEN TrimEnd(SubSeq(chars, 1, Len(chars) - 1)) ELSE chars

(* mutant of normalize_country: the code is stored as typed                *)
normalize_country_keep_case(value) ==
    LET trimmed == TrimEnd(TrimStart(value))
    IN  IF Len(trimmed) # 2 THEN NONE
        ELSE IF \E i \in 1..2 : trimmed[i] \notin AsciiLower \cup AsciiUpper THEN NONE
        ELSE Str(trimmed)

(* geo::normalize_country (geo.rs:58-67); value is the characters typed,   *)
(* NONE is the error                                                       *)
normalize_country(value) ==
    LET trimmed == TrimEnd(TrimStart(value))
    IN  IF Len(trimmed) # 2 THEN NONE
        ELSE IF \E i \in 1..2 : trimmed[i] \notin AsciiLower \cup AsciiUpper THEN NONE
        ELSE to_uppercase(Str(trimmed))

(* mutant of PortMapOf: the key of each port is made and its values lost    *)
PortMapOfKeysOnly(entries) == [p \in {e.port : e \in entries} |-> {}]

(* the per-port map load_state builds from a list of {port, value} entries *)
PortMapOf(entries) ==
    [p \in {e.port : e \in entries} |->
        {e.value : e \in {x \in entries : x.port = p}}]

(* the entries with to_uppercase applied to the country (app.rs:1144-1149) *)
UpperEntries(entries) ==
    {[port |-> e.port, value |-> to_uppercase(e.value)] : e \in entries}

(* load_state (app.rs:1098-1174): the AppState built from a document       *)
load_state(persisted) ==
    [rules |-> persisted.rules,
     blocklist |-> persisted.blocklist,
     port_blocklist |-> PortMapOf(persisted.port_blocklist),
     allowlist |-> persisted.allowlist,
     allowlist_ports |-> PortMapOf(persisted.allowlist_ports),
     allowlist_enabled |-> persisted.allowlist_enabled,
     geo_blocklist |-> {to_uppercase(c) : c \in persisted.geo_blocklist},
     geo_port_blocklist |-> PortMapOf(UpperEntries(persisted.geo_port_blocklist)),
     history |-> persisted.history,
     rate_limit |-> persisted.rate_limit,
     next_rule_id |-> NextRuleIdOf(persisted.rules),
     next_conn_id |-> NextConnIdOf(persisted.history)]

(* PersistedState::default(), app.rs:260-275                               *)
DefaultPersisted ==
    [rules |-> <<>>, blocklist |-> {}, port_blocklist |-> {}, allowlist |-> {},
     allowlist_ports |-> {}, allowlist_enabled |-> FALSE, geo_blocklist |-> {},
     geo_port_blocklist |-> {}, history |-> <<>>,
     rate_limit |-> [max_new_connections_per_minute |-> 120,
                     max_concurrent_connections_per_ip |-> 50,
                     max_concurrent_total |-> 2000]]

PortEntry(port, value) == [port |-> port, value |-> value]

(* state files: none; one written by hand with lower-case country codes,   *)
(* an unclamped rate limit and entries of one port listed apart            *)
PersistedFiles ==
    {DefaultPersisted,
     [DefaultPersisted EXCEPT
        !.rules = <<ProxyRule(2, ListenOne, TargetOne, FALSE, "tcp")>>,
        !.blocklist = {"10.0.0.2"},
        !.port_blocklist = {PortEntry(7000, "10.0.0.1"), PortEntry(7000, "10.0.0.2")},
        !.allowlist_ports = {PortEntry(443, "10.0.0.2")},
        !.allowlist_enabled = TRUE,
        !.geo_blocklist = {"ru", "RU"},
        !.geo_port_blocklist = {PortEntry(7000, "de"), PortEntry(7000, "Ru")},
        !.history = <<LoadedEntry(3), LoadedEntry(1)>>,
        !.rate_limit = [max_new_connections_per_minute |-> 0,
                        max_concurrent_connections_per_ip |-> 1,
                        max_concurrent_total |-> 2]]}

RawCountries ==
    {<<"R", "U">>, <<"r", "u">>, <<" ", "d", "e", " ">>, <<"R", "1">>,
     <<"R", "U", "S">>, <<>>}

(* add_geo_block, app.rs:874-919, from the request as typed                *)
AddGeoBlock(raw, port) ==
    /\ normalize_country(raw) # NONE
    /\ add_geo_block(normalize_country(raw), port)

(* remove_geo_block, app.rs:921-953, from the request as typed             *)
RemoveGeoBlock(raw, port) ==
    /\ normalize_country(raw) # NONE
    /\ remove_geo_block(normalize_country(raw), port)

InitRoundTrip ==
    \E persisted \in PersistedFiles :
        LET st == load_state(persisted)
        IN  /\ allowlist_enabled = st.allowlist_enabled
            /\ allowlist = st.allowlist
            /\ allowlist_ports = st.allowlist_ports
            /\ blocklist = st.blocklist
            /\ port_blocklist = st.port_blocklist
            /\ geo_blocklist = st.geo_blocklist
            /\ geo_port_blocklist = st.geo_port_blocklist
            /\ geo_db = NONE
            /\ rate_limit = st.rate_limit
            /\ InitRuntime
            /\ history = st.history
            /\ next_conn_id = st.next_conn_id
            /\ rules = st.rules
            /\ next_rule_id = st.next_rule_id
            /\ listeners = EmptyMap
            /\ udp_listeners = EmptyMap
            /\ lingering = {}
            /\ ext_bound = {}
            /\ ops = [s \in OpSlots |-> IdleOp]
            /\ last_snapshot = snapshot_state
            /\ fs = NoFs

NextRoundTrip ==
    \/ \E raw \in RawCountries, port \in {Absent, PolicyPort} : AddGeoBlock(raw, port)
    \/ \E raw \in RawCountries, port \in {Absent, PolicyPort} : RemoveGeoBlock(raw, port)
    \/ \E port \in {Absent, PolicyPort} : add_block(PolicyIP, port)
    \/ \E ip \in IPs, port \in {Absent, 7000} : remove_block(ip, port)
    \/ \E ip \in IPs : add_allow(ip, PolicyPort)
    \/ \E ip \in IPs : remove_allow(ip, PolicyPort)
    \/ \E e \in BOOLEAN : update_allowlist_mode(e)
    \/ \E q \in RateLimitRequests : UpdateRateLimit(q[1], q[2], q[3])

SpecRoundTrip == InitRoundTrip /\ [][NextRoundTrip]_vars

(* C21: in every reachable state, loading the snapshot that snapshot_state *)
(* produces gives back the rules, the global and per-port blocklists and   *)
(* allowlists, the allowlist mode, the global and per-port geo blocklists, *)
(* the history and the rate limit that are in memory.                      *)
C21_RoundTrip ==
    LET st == load_state(snapshot_state)
    IN  /\ st.rules = rules
        /\ st.blocklist = blocklist
        /\ st.port_blocklist = port_blocklist
        /\ st.allowlist = allowlist
        /\ st.allowlist_ports = allowlist_ports
        /\ st.allowlist_enabled = allowlist_enabled
        /\ st.geo_blocklist = geo_blocklist
        /\ st.geo_port_blocklist = geo_port_blocklist
        /\ st.history = history
        /\ st.rate_limit = rate_limit

(* C21 witness: the state was loaded from a file with lower-case codes and *)
(* edited since: a country typed in lower case is in the global geo        *)
(* blocklist, a per-port set loaded from the file has been emptied and a   *)
(* new one made, and the snapshot carries the loaded rule and history.     *)
C21_Witness ==
    /\ geo_blocklist = {"RU", "DE"}
    /\ 7000 \notin DOMAIN port_blocklist
    /\ PolicyPort \in DOMAIN port_blocklist
    /\ PolicyPort \in DOMAIN geo_port_blocklist
    /\ snapshot_state.rules # <<>>
    /\ snapshot_state.history # <<>>
    /\ snapshot_state.allowlist_ports # {}

(***************************************************************************)
(* SpecExpand: expand_listen_targets applied to listen and target specs,   *)
(* the call and its result kept in an operation slot.                      *)
(***************************************************************************)
ExpandListens ==
    {ListenOne, ListenTwo, ListenThree, ListenAny, ListenZeroRange, ListenWide,
     ListenBadPort, BlankAddr,
     Addr("0.0.0.0", 7000, 7000, TRUE),
     Addr("0.0.0.0", 7001, 7000, TRUE),
     Addr("0.0.0.0", 5, 0, TRUE),
     Addr("0.0.0.0", 1, MAX_PORT_RANGE, TRUE),
     Addr("0.0.0.0", U16_MAX - MAX_PORT_RANGE, U16_MAX, TRUE),
     Addr("0.0.0.0", U16_MAX - MAX_PORT_RANGE + 1, U16_MAX, TRUE),
     Addr("0.0.0.0", U16_MAX, U16_MAX + 1, TRUE),
     Addr("0.0.0.0", U16_MAX, U16_MAX, FALSE)}

ExpandTargets ==
    {TargetOne, TargetTwo, BlankAddr,
     Addr("10.0.0.5", 0, 0, FALSE),
     Addr("10.0.0.5", 9000, 9000, TRUE),
     Addr("10.0.0.5", 9000, 9002, TRUE),
     Addr("10.0.0.5", 9002, 9000, TRUE),
     Addr("10.0.0.5", 2 * MAX_PORT_RANGE, 3 * MAX_PORT_RANGE - 1, TRUE),
     Addr("10.0.0.5", 2 * MAX_PORT_RANGE, 3 * MAX_PORT_RANGE, TRUE)}

(* a caller of port_range::expand_listen_targets, as at app.rs:1178         *)
Expand(s, listen_addr, target_addr) ==
    LET e == expand_listen_targets(listen_addr, target_addr)
    IN  /\ ops' = [ops EXCEPT ![s] =
                      [IdleOp EXCEPT !.kind = "expand", !.pc = "returned",
                                     !.asked = AddrPair(listen_addr, target_addr),
                                     !.targets = e.targets,
                                     !.result = IF e.ok THEN "ok" ELSE e.err]]
        /\ UNCHANGED <<policy_vars, rate_limit, registry_vars, now, conns, udp_vars,
                       persist_vars, rules, next_rule_id, listener_vars, admit_log>>

NextExpand ==
    \E l \in ExpandListens, t \in ExpandTargets : Expand(1, l, t)

InitExpand == Init /\ rate_limit = DefaultRateLimit

SpecExpand == InitExpand /\ [][NextExpand]_vars

ExpandCalled == ops[1].kind = "expand"

(* what the specification calls a valid spec: a host, ports of 1..65535,   *)
(* a range ascending and of at most 1024 ports                             *)
ValidSpec(addr) ==
    /\ addr # BlankAddr
    /\ addr.lo \in 1..U16_MAX
    /\ addr.range => /\ addr.hi \in 1..U16_MAX
                     /\ addr.lo <= addr.hi
                     /\ addr.hi - addr.lo + 1 <= MAX_PORT_RANGE

(* the number of ports a valid spec names                                  *)
PortsNamed(addr) == IF addr.range THEN addr.hi - addr.lo + 1 ELSE 1

(* C24: for valid listen and target specs, expand returns one target per   *)
(* listen port in ascending port order; a single target port is paired     *)
(* with every listen port, a target range of the listen range's            *)
(* cardinality is paired by position, and every other combination of       *)
(* cardinalities is a port-range mismatch.                                 *)
C24_ExpandPairing ==
    ExpandCalled /\ ValidSpec(ops[1].asked.listen_addr)
                 /\ ValidSpec(ops[1].asked.target_addr) =>
        LET l == ops[1].asked.listen_addr
            t == ops[1].asked.target_addr
            out == ops[1].targets
        IN  IF PortsNamed(t) = 1 \/ PortsNamed(t) = PortsNamed(l)
            THEN /\ ops[1].result = "ok"
                 /\ Len(out) = PortsNamed(l)
                 /\ \A i \in 1..Len(out) :
                       /\ out[i].listen_port = l.lo + (i - 1)
                       /\ out[i].listen_host = l.host
                       /\ out[i].target_host = t.host
                       /\ out[i].target_port =
                             IF PortsNamed(t) = 1 THEN t.lo ELSE t.lo + (i - 1)
            ELSE /\ ops[1].result = "Port range mismatch"
                 /\ out = <<>>

(* C24 witness: a listen range of three ports was expanded against a       *)
(* target range of three ports.                                            *)
C24_Witness ==
    /\ ExpandCalled
    /\ ops[1].asked = AddrPair(ListenThree, Addr("10.0.0.5", 9000, 9002, TRUE))
    /\ Len(ops[1].targets) = 3
    /\ ops[1].targets[3].target_port = 9002

(* a single listen port against a target range has been refused           *)
C24_MismatchReached ==
    /\ ExpandCalled
    /\ ops[1].asked = AddrPair(ListenOne, TargetTwo)
    /\ ops[1].result = "Port range mismatch"

(* C25: port 0 is rejected as a single port and as an endpoint of a range, *)
(* a descending range and a range of more than 1024 ports are rejected, a  *)
(* range of exactly 1024 ports and a range a-a are accepted, and a-b       *)
(* yields exactly the ports a..=b.                                         *)
C25_PortTokenValidation ==
    ExpandCalled /\ ops[1].asked.listen_addr # BlankAddr
                 /\ ops[1].asked.target_addr = TargetOne =>
        LET l == ops[1].asked.listen_addr
            out == ops[1].targets
        IN  /\ l.lo = 0 \/ (l.range /\ l.hi = 0) => ops[1].result # "ok"
            /\ l.range /\ l.lo > l.hi => ops[1].result # "ok"
            /\ l.range /\ l.hi - l.lo + 1 > MAX_PORT_RANGE => ops[1].result # "ok"
            /\ l.range /\ ValidSpec(l) =>
                  /\ ops[1].result = "ok"
                  /\ {out[i].listen_port : i \in DOMAIN out} = l.lo..l.hi
                  /\ Len(out) = l.hi - l.lo + 1

(* C25 witness: the single port 0 was given and the call returned a target *)
(* on port 0.                                                              *)
C25_Witness ==
    /\ ExpandCalled
    /\ ops[1].asked = AddrPair(ListenAny, TargetOne)
    /\ ops[1].result = "ok"
    /\ ops[1].targets[1].listen_port = 0

(* C25 without the single port 0: the range checks                         *)
C25_RangeValidation ==
    ExpandCalled /\ ops[1].asked.listen_addr # BlankAddr
                 /\ ops[1].asked.target_addr = TargetOne =>
        LET l == ops[1].asked.listen_addr
            out == ops[1].targets
        IN  /\ l.range /\ (l.lo = 0 \/ l.hi = 0) => ops[1].result = "Port range cannot include 0"
            /\ l.range /\ l.lo \in 1..U16_MAX /\ l.hi \in 1..U16_MAX /\ l.lo > l.hi =>
                  ops[1].result = "Port range start is greater than end"
            /\ l.range /\ l.lo \in 1..U16_MAX /\ l.hi \in 1..U16_MAX
                  /\ l.hi - l.lo + 1 > MAX_PORT_RANGE =>
                  ops[1].result = "Port range too large"
            /\ l.range /\ ValidSpec(l) =>
                  /\ ops[1].result = "ok"
                  /\ {out[i].listen_port : i \in DOMAIN out} = l.lo..l.hi
                  /\ Len(out) = l.hi - l.lo + 1
            /\ ~l.range /\ l.lo \in 0..U16_MAX => ops[1].result = "ok"

(***************************************************************************)
(* SpecRelayBytes: SpecRelay's steps, and update_connection_bytes called   *)
(* with the id of a connection that is already in the history.             *)
(***************************************************************************)
HistoryIds == {history[i].id : i \in DOMAIN history}

(* update_connection_bytes (app.rs:1559-1569) for a finalized connection   *)
UpdateAfterFinalize(conn_id, total_bytes) ==
    /\ conn_id \in HistoryIds
    /\ update_connection_bytes(conn_id, total_bytes)
    /\ UNCHANGED <<policy_vars, rate_limit, now, conns, persist_vars,
                   engine_vars, admit_log, udp_vars>>

NextRelayBytes ==
    \/ NextRelay
    \/ \E c \in ConnIds, b \in RelayedBytes : UpdateAfterFinalize(c, b[1])

SpecRelayBytes == InitRelay /\ [][NextRelayBytes]_vars

(* the task that relays connection c                                       *)
RelayTaskOf(c) == {t \in Tasks : conns[t].pc = "relay" /\ conns[t].conn_id = c}

(* C27: finalize strictly follows every update_bytes that takes effect.   *)
(* A record is changed only while it is active and not yet in the history, *)
(* by a relay that still has a pump running; a relayed connection leaves   *)
(* the active map only when both its pumps have ended; and an id that is   *)
(* not active is never given a record except by registration, so an update *)
(* after the finalize changes nothing.                                     *)
C27_FinalizeFollowsUpdates ==
    [][/\ \A c \in DOMAIN active' \ DOMAIN active :
             c = next_conn_id /\ c \notin HistoryIds
       /\ \A c \in DOMAIN active \cap DOMAIN active' :
             active'[c] # active[c] =>
                /\ c \notin HistoryIds
                /\ \E t \in RelayTaskOf(c) :
                      conns[t].up = "running" \/ conns[t].down = "running"
       /\ \A c \in DOMAIN active \ DOMAIN active' :
             /\ c \in HistoryIds'
             /\ \A t \in RelayTaskOf(c) :
                   conns[t].up \in PumpEnds /\ conns[t].down \in PumpEnds
       /\ HistoryIds' \cap DOMAIN active' = {}
      ]_vars

(* C27 witness: one relay has been finalized with its byte counts, and a   *)
(* second one, with one pump ended and one running, has had a progress     *)
(* update take effect.                                                     *)
C27_Witness ==
    /\ \E i \in DOMAIN history : ~history[i].blocked /\ history[i].bytes_up > 0
    /\ \E t \in Tasks :
          /\ conns[t].pc = "relay"
          /\ conns[t].up \in PumpEnds
          /\ conns[t].down = "running"
          /\ active[conns[t].conn_id].bytes_transferred > 0

(* the entries of h from position k + 1 on                                 *)
DropOldest(h, k) == SubSeq(h, k + 1, Len(h))

(* C28: history entries appear in the order in which finalizations and     *)
(* blocked records take the state lock.  Each such step puts its own entry *)
(* last, a finalization the entry of the connection it removes from the    *)
(* active map and a blocked record the entry with the id it takes from the *)
(* counter; the entries before it are the old history, in its order and    *)
(* unaltered, less the oldest ones dropped at the cap.                     *)
C28_HistoryInLockOrder ==
    [][/\ \A c \in DOMAIN active \ DOMAIN active' :
             Appended.id = c /\ ~Appended.blocked
       /\ (next_conn_id' # next_conn_id /\ DOMAIN active' = DOMAIN active) =>
             Appended.id = next_conn_id /\ Appended.blocked
       /\ history' # history =>
             /\ \E k \in {0, Len(history) + 1 - MAX_HISTORY} :
                   /\ k >= 0
                   /\ SubSeq(history', 1, Len(history') - 1) = DropOldest(history, k)
             /\ \/ Appended.id \in DOMAIN active \ DOMAIN active'
                \/ Appended.id = next_conn_id /\ next_conn_id' = next_conn_id + 1
      ]_vars

(* C28 witness: the history is at its cap, and its last two entries are a  *)
(* blocked record and, after it, the finalization of a connection admitted *)
(* before that record was made.                                            *)
C28_Witness ==
    /\ Len(history) = MAX_HISTORY
    /\ history[Len(history) - 1].blocked
    /\ ~history[Len(history)].blocked
    /\ history[Len(history)].id < history[Len(history) - 1].id

(***************************************************************************)
(* The read handlers of the telemetry API (app.rs:672-749) as functions of *)
(* the history, and SpecViews, which applies them to histories the process *)
(* can hold.  An entry carries started_at and ended_at here; timestamps    *)
(* are numbered in the order of their RFC 3339 strings, which is the       *)
(* order sort_by compares them in.  limit is Absent or a usize.            *)
(***************************************************************************)
Min2(a, b) == IF a <= b THEN a ELSE b

(* str::contains, for the reason texts and patterns that occur            *)
Contains(text, pattern) ==
    <<text, pattern>> \in
        {<<"Rate limit exceeded", "Rate limit">>,
         <<"Too many total connections", "Too many">>,
         <<"Too many active connections for IP", "Too many">>,
         <<"Too many open files", "Too many">>}

(* mutant of is_ddos_reason: only the rate limit counts                    *)
is_ddos_reason_rate_only(reason) == Contains(reason, "Rate limit")

(* is_ddos_reason (app.rs:1490-1492)                                       *)
is_ddos_reason(reason) ==
    Contains(reason, "Rate limit") \/ Contains(reason, "Too many")

Reversed(seq) == [i \in 1..Len(seq) |-> seq[Len(seq) + 1 - i]]

Take(seq, n) == SubSeq(seq, 1, Min2(n, Len(seq)))

NotBlocked(entry) == ~entry.blocked

IsBlocked(entry) == entry.blocked

(* recent_connections (app.rs:672-687)                                     *)
recent_connections(limit) ==
    LET n == Min2(IF limit = Absent THEN 100 ELSE limit, MAX_HISTORY)
    IN  Take(SelectSeq(Reversed(history), NotBlocked), n)

(* blocked_connections (app.rs:721-736)                                    *)
blocked_connections(limit) ==
    LET n == Min2(IF limit = Absent THEN 200 ELSE limit, MAX_HISTORY)
    IN  Take(SelectSeq(Reversed(history), IsBlocked), n)

(* mutant of history_handler: the leading entries are returned             *)
history_handler_head(limit) ==
    LET n == Min2(IF limit = Absent THEN 200 ELSE limit, MAX_HISTORY)
    IN  IF Len(history) > n THEN SubSeq(history, 1, n) ELSE history

(* history (app.rs:738-749), the handler of GET /api/history               *)
history_handler(limit) ==
    LET n == Min2(IF limit = Absent THEN 200 ELSE limit, MAX_HISTORY)
    IN  IF Len(history) > n
        THEN SubSeq(history, Len(history) - n + 1, Len(history))
        ELSE history

(* the entries ddos_list does not skip (app.rs:693-700)                    *)
DdosEntryCounts(entry) ==
    /\ entry.reason # NoReason
    /\ is_ddos_reason(entry.reason.msg)
    /\ entry.blocked

(* the loop of ddos_list over the entries it does not skip                 *)
(* (app.rs:701-715): items after entries i.. of seq                        *)
RECURSIVE DdosItems(_, _, _)
DdosItems(items, seq, i) ==
    IF i > Len(seq) THEN items
    ELSE LET entry == seq[i]
             last_seen == IF entry.ended_at = Absent THEN entry.started_at
                          ELSE entry.ended_at
             item == MapGet(items, entry.client_ip,
                            [ip |-> entry.client_ip, count |-> 0,
                             last_seen |-> last_seen,
                             last_reason |-> entry.reason.msg,
                             last_port |-> entry.listen_port])
         IN  DdosItems(MapPut(items, entry.client_ip,
                              [item EXCEPT !.count = @ + 1,
                                           !.last_seen = last_seen,
                                           !.last_reason = entry.reason.msg,
                                           !.last_port = entry.listen_port]),
                       seq, i + 1)

(* ddos_list (app.rs:689-719): the responses it can give.  into_values     *)
(* yields the items in any order and sort_by orders them by last_seen,     *)
(* descending, items of equal last_seen staying as they came               *)
ddos_list ==
    LET items == DdosItems(EmptyMap, SelectSeq(history, DdosEntryCounts), 1)
        n == Cardinality(DOMAIN items)
    IN  {entries \in [1..n -> {items[ip] : ip \in DOMAIN items}] :
            /\ \A i, j \in 1..n : i # j => entries[i] # entries[j]
            /\ \A i \in 1..(n - 1) : entries[i].last_seen >= entries[i + 1].last_seen}

ViewEntry(id, client_ip, listen_port, blocked, msg, started_at, ended_at) ==
    [id |-> id, rule_id |-> 1, client_ip |-> client_ip, listen_port |-> listen_port,
     bytes_up |-> 0, bytes_down |-> 0, blocked |-> blocked,
     reason |-> Reason(msg, 0, ""), started_at |-> started_at, ended_at |-> ended_at]

ManyEntries == 400     \* entries of the long mixed history

(* histories: empty; rejections of two clients with a tie in last_seen and *)
(* a failed connect whose error reads like a DDoS reason; one written      *)
(* while the wall clock was set back, with an entry without ended_at; one  *)
(* above the cap, loaded from a file; a long one of rejections and relays; *)
(* a single relay                                                          *)
ViewHistories ==
    {<<>>,
     <<ViewEntry(1, "10.0.0.1", 443, TRUE, "Rate limit exceeded", 10, 10),
       ViewEntry(2, "10.0.0.1", 443, FALSE, "Too many open files", 10, 11),
       ViewEntry(3, "10.0.0.2", 443, TRUE, "Blocked by rule", 11, 11),
       ViewEntry(4, "10.0.0.2", 7000, TRUE, "Too many total connections", 12, 12),
       ViewEntry(5, "10.0.0.1", 7000, TRUE, "Too many active connections for IP", 12, 12),
       ViewEntry(6, "10.0.0.3", 443, FALSE, "", 12, 13)>>,
     <<ViewEntry(1, "10.0.0.1", 443, TRUE, "Too many total connections", 20, 20),
       ViewEntry(2, "10.0.0.2", 443, TRUE, "Rate limit exceeded", 17, Absent),
       ViewEntry(3, "10.0.0.1", 7000, TRUE, "Rate limit exceeded", 15, 15),
       ViewEntry(4, "10.0.0.3", 7000, TRUE, "Rate limit exceeded", 16, 16)>>,
     LoadedHistory(MAX_HISTORY + 2),
     [i \in 1..ManyEntries |->
        ViewEntry(i, IF i % 2 = 0 THEN "10.0.0.1" ELSE "10.0.0.2", 443, i % 3 # 0,
                  IF i % 3 = 0 THEN "" ELSE IF i % 50 = 1 THEN "Rate limit exceeded"
                  ELSE "Blocked by rule", i, i)],
     <<ViewEntry(7, "10.0.0.2", 7000, FALSE, "", 5, 6)>>}

ViewLimits == {Absent, 0, 1, 3, 150, 250, MAX_HISTORY, MAX_HISTORY + 5}

(* a handler's call and response, kept in an operation slot that has held  *)
(* none so far                                                             *)
Responded(s, kind, limit, response) ==
    /\ ops[s].pc # "returned"
    /\ ops' = [ops EXCEPT ![s] =
                  [IdleOp EXCEPT !.kind = kind, !.pc = "returned", !.idx = limit,
                                 !.result = response]]
    /\ UNCHANGED <<policy_vars, rate_limit, registry_vars, now, conns, udp_vars,
                   persist_vars, rules, next_rule_id, listener_vars, admit_log>>

GetRecent(s, limit) == Responded(s, "recent", limit, recent_connections(limit))

GetBlocked(s, limit) == Responded(s, "blocked", limit, blocked_connections(limit))

GetHistory(s, limit) == Responded(s, "history", limit, history_handler(limit))

GetDdos(s) == \E entries \in ddos_list : Responded(s, "ddos", Absent, entries)

InitViews == \E h \in ViewHistories : InitLoaded(<<>>, h, DefaultRateLimit, {})

NextViews ==
    \/ \E limit \in ViewLimits : GetRecent(1, limit)
    \/ \E limit \in ViewLimits : GetBlocked(1, limit)
    \/ \E limit \in ViewLimits : GetHistory(1, limit)
    \/ GetDdos(1)

SpecViews == InitViews /\ [][NextViews]_vars

(* positions of the history entries that are blocked with a DDoS-class     *)
(* reason, oldest first                                                    *)
DdosPositions ==
    SelectSeq([i \in 1..Len(history) |-> i],
              LAMBDA i : /\ history[i].blocked
                         /\ history[i].reason.msg \in
                               {"Rate limit exceeded", "Too many total connections",
                                "Too many active connections for IP",
                                "Too many open files"})

(* C29: the DDoS report has one entry per client IP that has a blocked     *)
(* history entry with a DDoS-class reason; its count is the number of such *)
(* entries of the IP, last_seen, last_reason and last_port are those of    *)
(* the newest of them, the entries are sorted by last_seen descending, and *)
(* no other history entry contributes.                                     *)
C29_DdosReport ==
    ops[1].kind = "ddos" =>
        LET report == ops[1].result
            pos == DdosPositions
            of(ip) == SelectSeq(pos, LAMBDA i : history[i].client_ip = ip)
            ips == {history[pos[k]].client_ip : k \in DOMAIN pos}
        IN  /\ {report[k].ip : k \in DOMAIN report} = ips
            /\ Len(report) = Cardinality(ips)
            /\ \A k \in DOMAIN report :
                  LET mine == of(report[k].ip)
                      newest == history[mine[Len(mine)]]
                  IN  /\ report[k].count = Len(mine)
                      /\ report[k].last_seen =
                            IF newest.ended_at = Absent THEN newest.started_at
                            ELSE newest.ended_at
                      /\ report[k].last_reason = newest.reason.msg
                      /\ report[k].last_port = newest.listen_port
            /\ \A k \in 1..(Len(report) - 1) :
                  report[k].last_seen >= report[k + 1].last_seen

(* C29 witness: the report was asked for a history in which two clients    *)
(* have DDoS-class rejections, one of them two, next to a rejection for    *)
(* another reason and a failed connect whose error contains 'Too many'.    *)
C29_Witness ==
    /\ ops[1].kind = "ddos"
    /\ Len(ops[1].result) = 2
    /\ \E k \in 1..2 : ops[1].result[k].count = 2 /\ ops[1].result[k].last_port = 7000
    /\ \E i \in DOMAIN history : ~history[i].blocked /\ history[i].reason.msg = "Too many open files"
    /\ \E i \in DOMAIN history : history[i].blocked /\ history[i].reason.msg = "Blocked by rule"

(* positions of the entries whose blocked flag is b, oldest first          *)
PositionsOf(b) ==
    SelectSeq([i \in 1..Len(history) |-> i], LAMBDA i : history[i].blocked = b)

(* the newest n of the entries at positions pos, newest first              *)
NewestFirst(pos, n) ==
    [j \in 1..Min2(n, Len(pos)) |-> history[pos[Len(pos) + 1 - j]]]

(* C30: recent(limit) is the newest min(limit, 10,000) non-blocked entries *)
(* newest first, limit being 100 by default; blocked(limit) the newest     *)
(* min(limit, 10,000) blocked entries, 200 by default; history(limit) the  *)
(* trailing min(limit, 10,000) entries in chronological order.             *)
C30_HistoryViews ==
    LET limit == ops[1].idx
        n(dflt) == Min2(IF limit = Absent THEN dflt ELSE limit, MAX_HISTORY)
        out == ops[1].result
    IN  /\ ops[1].kind = "recent" => out = NewestFirst(PositionsOf(FALSE), n(100))
        /\ ops[1].kind = "blocked" => out = NewestFirst(PositionsOf(TRUE), n(200))
        /\ ops[1].kind = "history" =>
              /\ Len(out) = Min2(n(200), Len(history))
              /\ \A j \in 1..Len(out) :
                    out[j] = history[Len(history) - Len(out) + j]

(* C30 witness: the history of 10,002 entries was asked for with a limit   *)
(* above the cap and 10,000 entries came back, ending with the last one.   *)
C30_Witness ==
    /\ ops[1].kind = "history"
    /\ ops[1].idx = MAX_HISTORY + 5
    /\ Len(history) = MAX_HISTORY + 2
    /\ Len(ops[1].result) = MAX_HISTORY
    /\ ops[1].result[MAX_HISTORY] = history[Len(history)]

(* the defaults have been used on a history longer than they are           *)
C30_DefaultsReached ==
    /\ ops[1].idx = Absent
    /\ Len(history) = ManyEntries
    /\ \/ ops[1].kind = "recent" /\ Len(ops[1].result) = 100
       \/ ops[1].kind = "blocked" /\ Len(ops[1].result) = 200

(***************************************************************************)
(* SpecPump: the relay's two pump loops, one read at a time                *)
(* (app.rs:1591-1645).  Each pump keeps its own total_bytes, held here in  *)
(* conns[t].bytes_up and conns[t].bytes_down while the pump runs; a read   *)
(* fills at most the 8192-byte buffer.  After forwarding the bytes the     *)
(* pump calls update_connection_bytes with its own total when 100 ms have  *)
(* passed since its last update (elapsed, decided by the clock) or when    *)
(* its total is a multiple of 1 MiB.  One loop iteration is one step; the  *)
(* awaits inside it only add interleavings.                                *)
(***************************************************************************)
BUFFER_SIZE == 8192

UPDATE_EVERY_BYTES == 1048576

MaxPumpBytes == 16384      \* a pump reads while its total stays within this

ReadSizes == {4096, BUFFER_SIZE}

PumpTasks == {1}

UpdateDue(total_bytes, elapsed) == elapsed \/ total_bytes % UPDATE_EVERY_BYTES = 0

PumpStep(t, total_bytes, elapsed) ==
    /\ IF UpdateDue(total_bytes, elapsed)
       THEN update_connection_bytes(conns[t].conn_id, total_bytes)
       ELSE UNCHANGED registry_vars
    /\ UNCHANGED <<policy_vars, rate_limit, now, persist_vars, engine_vars,
                   admit_log, udp_vars>>

(* one iteration of client_to_server with Ok(n), n > 0 (app.rs:1599-1611)  *)
ClientToServerRead(t, n, elapsed) ==
    /\ conns[t].pc = "relay"
    /\ conns[t].up = "running"
    /\ conns[t].bytes_up + n <= MaxPumpBytes
    /\ conns' = [conns EXCEPT ![t].bytes_up = @ + n]
    /\ PumpStep(t, conns[t].bytes_up + n, elapsed)

(* one iteration of server_to_client with Ok(n), n > 0 (app.rs:1629-1641)  *)
ServerToClientRead(t, n, elapsed) ==
    /\ conns[t].pc = "relay"
    /\ conns[t].down = "running"
    /\ conns[t].bytes_down + n <= MaxPumpBytes
    /\ conns' = [conns EXCEPT ![t].bytes_down = @ + n]
    /\ PumpStep(t, conns[t].bytes_down + n, elapsed)

NextPump ==
    \/ \E s \in OpSlots : StartupNext(s)
    \/ \E s \in OpSlots : StartRuleListeners(s)
    \/ \E s \in OpSlots : StartTcpListenerBind(s)
    \/ \E s \in OpSlots : StartTcpListenerPush(s)
    \/ \E s \in OpSlots : Respond(s)
    \/ \E t \in PumpTasks, ip \in RelayClients : AcceptOnListener(t, RelayRuleId, ip)
    \/ \E t \in PumpTasks : HandleConnectionBlocked(t)
    \/ \E t \in PumpTasks : HandleConnectionConnectFailed(t)
    \/ \E t \in PumpTasks : HandleConnectionConnected(t)
    \/ \E t \in PumpTasks, n \in ReadSizes, elapsed \in BOOLEAN :
          ClientToServerRead(t, n, elapsed)
    \/ \E t \in PumpTasks, n \in ReadSizes, elapsed \in BOOLEAN :
          ServerToClientRead(t, n, elapsed)
    \/ \E t \in PumpTasks, how \in PumpEnds : ClientToServerEnds(t, how, conns[t].bytes_up)
    \/ \E t \in PumpTasks, how \in PumpEnds : ServerToClientEnds(t, how, conns[t].bytes_down)
    \/ \E t \in PumpTasks : HandleConnectionJoined(t)

SpecPump == InitRelay /\ [][NextPump]_vars

(* a step in which a pump of task t made a progress update                 *)
ProgressUpdate(t) ==
    \E n \in ReadSizes :
       \/ ClientToServerRead(t, n, TRUE)
       \/ ServerToClientRead(t, n, TRUE)

(* C31: after any progress update of the relay, the active connection's    *)
(* bytes_transferred is the number of bytes relayed so far in both         *)
(* directions together, client->upstream plus upstream->client.            *)
C31_ProgressIsBothDirections ==
    [][\A t \in PumpTasks :
          ProgressUpdate(t) /\ conns[t].conn_id \in DOMAIN active'
          => active'[conns[t].conn_id].bytes_transferred
                = conns'[t].bytes_up + conns'[t].bytes_down]_vars

(* a connection whose record shows the bytes of one direction only, both   *)
(* directions having moved bytes                                           *)
C31_Witness ==
    \E t \in PumpTasks :
       /\ conns[t].pc = "relay"
       /\ conns[t].bytes_up > 0
       /\ conns[t].bytes_down > 0
       /\ conns[t].conn_id \in DOMAIN active
       /\ active[conns[t].conn_id].bytes_transferred = conns[t].bytes_down

(* what the code does: a progress update stores the total of the pump      *)
(* that made it, the direction of the read of that step                    *)
C31_ProgressIsOneDirection ==
    [][\A t \in PumpTasks, n \in ReadSizes :
          /\ ClientToServerRead(t, n, TRUE) /\ conns[t].conn_id \in DOMAIN active'
             => active'[conns[t].conn_id].bytes_transferred = conns'[t].bytes_up
          /\ ServerToClientRead(t, n, TRUE) /\ conns[t].conn_id \in DOMAIN active'
             => active'[conns[t].conn_id].bytes_transferred = conns'[t].bytes_down]_vars

(***************************************************************************)
(* SpecUpdate: one enabled TCP rule is loaded and started, and the         *)
(* operator updates it, one call at a time: with an empty patch, with      *)
(* enabled = true, or moving it between the one-port and the two-port      *)
(* spec.  No other rule exists and no other process holds a port, so a     *)
(* socket that is bound and belongs to no registered handle is a socket of *)
(* this rule's own earlier listeners.                                      *)
(***************************************************************************)
UpdateRuleId == NextRuleIdOf(<<>>)

RestartRequests ==
    {UpdateRuleRequest(None, None, None, None),
     UpdateRuleRequest(None, None, Some(TRUE), None),
     UpdateRuleRequest(Some(ListenTwo), Some(TargetTwo), None, None),
     UpdateRuleRequest(Some(ListenOne), Some(TargetOne), None, None)}

InitUpdate ==
    InitLoaded(<<ProxyRule(UpdateRuleId, ListenOne, TargetOne, TRUE, "tcp")>>, <<>>,
               DefaultRateLimit, {})

NextUpdate ==
    \/ \E s \in OpSlots, q \in RestartRequests : update_rule(s, 1, UpdateRuleId, q)
    \/ \E s \in OpSlots : StartupNext(s)
    \/ \E s \in OpSlots : StartRuleListeners(s)
    \/ \E s \in OpSlots : StartTcpListenerBind(s)
    \/ \E s \in OpSlots : StartTcpListenerPush(s)
    \/ \E s \in OpSlots : stop_tcp_listener(s)
    \/ \E s \in OpSlots : stop_udp_listener(s)
    \/ \E s \in OpSlots : disable_rule_after_start_failure(s)
    \/ \E s \in OpSlots : SnapshotAndPersist(s)
    \/ \E s \in OpSlots : Respond(s)
    \/ \E sock \in lingering : TaskDrop(sock)

SpecUpdate == InitUpdate /\ [][NextUpdate]_vars

(* an update call that has returned, made on a rule that was enabled with  *)
(* its listeners running, whose patched state is enabled with a valid spec *)
RestartingUpdate(op) ==
    /\ op.pc = "returned"
    /\ op.kind = "update"
    /\ RunningBefore(op)
    /\ op.rule.enabled
    /\ ValidPair(op.asked)

ListenersAre(rule) ==
    /\ PortsOf(MapGet(listeners, rule.id, <<>>)) = ExpandedPorts(rule, uses_tcp(rule.protocol))
    /\ PortsOf(MapGet(udp_listeners, rule.id, <<>>))
          = ExpandedPorts(rule, uses_udp(rule.protocol))

(* C32: an update of an enabled rule whose patched state is enabled, has a *)
(* valid spec and whose ports nothing else uses completes with the rule    *)
(* still enabled and with listeners for exactly the new expanded targets:  *)
(* the stop of the old listeners has released their ports before the       *)
(* restart binds.                                                          *)
C32_UpdateRestartsListeners ==
    \A s \in OpSlots :
        RestartingUpdate(ops[s]) =>
            /\ ops[s].result = "ok"
            /\ RuleOf(rules, ops[s].id).enabled
            /\ ListenersAre(ops[s].rule)

(* an update with an empty patch of the running rule answered with the     *)
(* listener error and left the rule disabled without a listener            *)
C32_Witness ==
    \E s \in OpSlots :
        /\ RestartingUpdate(ops[s])
        /\ ops[s].asked = AddrPair(ListenOne, TargetOne)
        /\ RuleOf(ops[s].pre.rules, ops[s].id).listen_addr = ListenOne
        /\ ops[s].result = "Listener failed"
        /\ ~RuleOf(rules, ops[s].id).enabled
        /\ ops[s].id \notin DOMAIN listeners

(* what holds: such an update ends either as the sentence says or, when a  *)
(* bind met a socket still open, with the listener error, the rule         *)
(* disabled and no listener                                                *)
C32_RestartOrFailure ==
    \A s \in OpSlots :
        RestartingUpdate(ops[s]) =>
            \/ /\ ops[s].result = "ok"
               /\ RuleOf(rules, ops[s].id).enabled
               /\ ListenersAre(ops[s].rule)
            \/ /\ ops[s].result = "Listener failed"
               /\ ops[s].start_failed
               /\ DisabledAndTornDown(ops[s].id)

(* an update of the running rule that did restart it on its ports          *)
C32_RestartReached ==
    \E s \in OpSlots :
        /\ RestartingUpdate(ops[s])
        /\ ops[s].result = "ok"
        /\ RuleOf(ops[s].pre.rules, ops[s].id).listen_addr = ListenTwo
        /\ ops[s].asked = AddrPair(ListenOne, TargetOne)

(* the entries of the client's rate window are at most 60 s old            *)
WindowFresh(rc, client_ip, t) ==
    \A i \in DOMAIN MapGet(rc, client_ip, <<>>) :
        t - MapGet(rc, client_ip, <<>>)[i] <= RATE_WINDOW_SECS

(* C33: every admission evaluation for a client IP prunes that IP's rate   *)
(* window, the evaluations rejected by an earlier check (allowlist, geo,   *)
(* blocklist, a concurrency cap) included: after an evaluation for an IP   *)
(* its window holds no entry older than 60 s.                              *)
C33_EveryEvaluationPrunes ==
    [][\A t \in Tasks, r \in ConnRuleIds, ip \in IPs :
          AcceptLogged(t, r, ip, ListenPort) => WindowFresh(rate_counters', ip, now')]_vars

(* a connection rejected by the per-IP cap whose client's window still     *)
(* holds an entry older than 60 s                                          *)
C33_Witness ==
    \E t \in Tasks :
        /\ conns[t].pc = "rejected"
        /\ conns[t].reason = Reason("Too many active connections for IP", 0, "")
        /\ ~WindowFresh(rate_counters, conns[t].client_ip, now)

(* what holds: an evaluation that reaches the rate check (it admits, or it *)
(* rejects with the rate-limit reason) leaves the window pruned, and an    *)
(* evaluation rejected earlier leaves every window as it was               *)
C33_RateCheckPrunes ==
    [][\A t \in Tasks, r \in ConnRuleIds, ip \in IPs :
          AcceptLogged(t, r, ip, ListenPort) =>
             IF conns'[t].reason \in {NoReason, Reason("Rate limit exceeded", 0, "")}
             THEN WindowFresh(rate_counters', ip, now')
             ELSE rate_counters' = rate_counters]_vars

(***************************************************************************)
(* SpecUdpFlow: the UDP listener and its session tasks with datagrams of   *)
(* different lengths, and the end of a session task in its two awaits      *)
(* (udp_proxy.rs:191-198): the entry is removed under the client-map lock, *)
(* and record_connection_end then takes the state lock.  SessionFinalize   *)
(* above is these two steps taken together.  A session task that has       *)
(* removed its entry is kept in sessions under the key EndingKey until it  *)
(* has recorded the end, so that a new session of the same source can      *)
(* start meanwhile.                                                        *)
(*                                                                         *)
(* admit_log is the observer here: for each connection id that got a       *)
(* session, the source address, the bytes of the datagrams recv_from       *)
(* yielded for that source while its entry was in the client map (the      *)
(* datagram that created the session included), the bytes of the replies   *)
(* sent back to it, and the bytes of datagrams the listener dropped        *)
(* because the entry was gone when it came to forward them.  The listener  *)
(* task's record carries the datagram in hand: its length and the id it    *)
(* was observed for.                                                       *)
(***************************************************************************)
UdpLens == {1, 2}

FlowRateLimit == DefaultRateLimit

FlowClients == {[ip |-> "10.0.0.1", port |-> 5000]}

InitUdpFlow == InitLoaded(<<UdpRule>>, <<>>, FlowRateLimit, {})

Observed(a, len) == [addr |-> a, received |-> len, replied |-> 0, dropped |-> 0]

EndingKey(a, conn_id) == [ip |-> a.ip, port |-> a.port, conn_id |-> conn_id]

FlowFrame == UNCHANGED <<now, conns, engine_vars>>

(* recv_from yields len bytes of client_addr; the client map is looked up  *)
(* (udp_proxy.rs:53-69)                                                    *)
UdpRecvLen(p, client_addr, len) ==
    /\ udp_task[p].pc = "select"
    /\ LET has == client_addr \in DOMAIN clients[p]
           c == IF has THEN clients[p][client_addr].conn_id ELSE 0
       IN /\ IF has THEN admit_log[c].received < MaxUdpBytes
                    ELSE next_conn_id <= MaxConnId
          /\ udp_task' = [udp_task EXCEPT ![p] =
                            [pc |-> IF has THEN "forward" ELSE "register",
                             rule_id |-> udp_task[p].rule_id,
                             client_addr |-> client_addr, conn_id |-> 0,
                             reason |-> NoReason, shutdown |-> udp_task[p].shutdown,
                             len |-> len, seen_for |-> c]]
          /\ admit_log' = IF has THEN [admit_log EXCEPT ![c].received = @ + len]
                          ELSE admit_log
    /\ UNCHANGED <<clients, sessions>>
    /\ UdpIdle /\ FlowFrame

(* bind and connect succeed: the entry is inserted unless the source has   *)
(* one, and the session task is spawned (udp_proxy.rs:93-117)              *)
UdpInsertLen(p) ==
    /\ udp_task[p].pc = "upstream"
    /\ LET a == udp_task[p].client_addr IN
       IF a \in DOMAIN clients[p]
       THEN /\ udp_task' = [udp_task EXCEPT ![p].pc = "select", ![p].client_addr = NoClient,
                                            ![p].conn_id = 0, ![p].len = 0]
            /\ UNCHANGED <<clients, sessions, admit_log>>
       ELSE /\ clients' = [clients EXCEPT ![p] =
                              MapPut(@, a, ClientEntry(udp_task[p].conn_id, now))]
            /\ sessions' = [sessions EXCEPT ![p] =
                               MapPut(@, a, Session(udp_task[p].shutdown))]
            /\ admit_log' = MapPut(admit_log, udp_task[p].conn_id,
                                   Observed(a, udp_task[p].len))
            /\ udp_task' = [udp_task EXCEPT ![p].pc = "forward",
                                            ![p].seen_for = udp_task[p].conn_id,
                                            ![p].conn_id = 0]
    /\ UdpIdle /\ FlowFrame

(* the datagram is counted on the entry and sent upstream, or dropped when *)
(* the entry is gone (udp_proxy.rs:120-133)                                *)
UdpForwardLen(p) ==
    /\ udp_task[p].pc = "forward"
    /\ LET a == udp_task[p].client_addr
           len == udp_task[p].len
           c == udp_task[p].seen_for
       IN IF a \in DOMAIN clients[p]
          THEN /\ clients' = [clients EXCEPT ![p][a].bytes_up = @ + len,
                                             ![p][a].last_seen = now]
               /\ UNCHANGED admit_log
          ELSE /\ UNCHANGED clients
               /\ admit_log' = [admit_log EXCEPT ![c].dropped = @ + len]
    /\ udp_task' = [udp_task EXCEPT ![p].pc = "select", ![p].client_addr = NoClient,
                                    ![p].len = 0, ![p].seen_for = 0]
    /\ UNCHANGED sessions
    /\ UdpIdle /\ FlowFrame

(* upstream.recv yields len bytes, they are sent to the client and counted *)
(* on the entry (udp_proxy.rs:160-177)                                     *)
SessionReplyLen(p, a, len) ==
    /\ a \in DOMAIN sessions[p]
    /\ sessions[p][a].pc = "select"
    /\ a \in DOMAIN clients[p]
    /\ admit_log[clients[p][a].conn_id].replied < MaxUdpBytes
    /\ clients' = [clients EXCEPT ![p][a].bytes_down = @ + len, ![p][a].last_seen = now]
    /\ admit_log' = [admit_log EXCEPT ![clients[p][a].conn_id].replied = @ + len]
    /\ UNCHANGED <<udp_task, sessions>>
    /\ UdpIdle /\ FlowFrame

(* after the loop: guard.remove(&client_addr) under the client-map lock    *)
(* (udp_proxy.rs:191-194)                                                  *)
SessionRemove(p, a) ==
    /\ a \in DOMAIN sessions[p]
    /\ sessions[p][a].pc = "remove"
    /\ clients' = [clients EXCEPT ![p] = MapDel(@, a)]
    /\ sessions' = [sessions EXCEPT ![p] =
                      IF a \in DOMAIN clients[p]
                      THEN MapPut(MapDel(@, a), EndingKey(a, clients[p][a].conn_id),
                                  [pc |-> "end", broke |-> sessions[p][a].broke,
                                   shutdown |-> sessions[p][a].shutdown,
                                   entry |-> clients[p][a]])
                      ELSE MapDel(@, a)]
    /\ UNCHANGED <<udp_task, admit_log>>
    /\ UdpIdle /\ FlowFrame

(* if let Some(entry) = entry: record_connection_end with the entry's      *)
(* counters and reason None (udp_proxy.rs:195-197)                         *)
SessionRecordEnd(p, k) ==
    /\ k \in DOMAIN sessions[p]
    /\ sessions[p][k].pc = "end"
    /\ LET entry == sessions[p][k].entry IN
       record_connection_end(entry.conn_id, entry.bytes_up, entry.bytes_down, NoReason)
    /\ sessions' = [sessions EXCEPT ![p] = MapDel(@, k)]
    /\ UNCHANGED <<udp_task, clients, admit_log, now, conns, listener_vars, ops>>

NextUdpFlow ==
    \/ \E s \in OpSlots : StartupNext(s)
    \/ \E s \in OpSlots : StartRuleListeners(s)
    \/ \E s \in OpSlots : StartUdpListenerBind(s)
    \/ \E s \in OpSlots : StartUdpListenerPush(s)
    \/ \E s \in OpSlots : Respond(s)
    \/ \E p \in UdpPorts, a \in FlowClients, len \in UdpLens : UdpRecvLen(p, a, len)
    \/ \E p \in UdpPorts : UdpRegister(p)
    \/ \E p \in UdpPorts : UdpRecordBlocked(p)
    \/ \E p \in UdpPorts, msg \in UpstreamErrors : UdpUpstreamFailed(p, msg)
    \/ \E p \in UdpPorts : UdpInsertLen(p)
    \/ \E p \in UdpPorts : UdpForwardLen(p)
    \/ \E p \in UdpPorts, a \in FlowClients, len \in UdpLens : SessionReplyLen(p, a, len)
    \/ \E p \in UdpPorts, a \in FlowClients : SessionUpstreamError(p, a)
    \/ \E p \in UdpPorts, a \in FlowClients : SessionRemove(p, a)
    \/ \E p \in UdpPorts : \E k \in DOMAIN sessions[p] : SessionRecordEnd(p, k)

SpecUdpFlow == InitUdpFlow /\ [][NextUdpFlow]_vars

(* the active records of the sessions of source address a                  *)
ActiveOfSource(a) == {c \in (DOMAIN active) \cap (DOMAIN admit_log) : admit_log[c].addr = a}

(* C34: on a UDP listener at most one session, and one active connection   *)
(* record, exists per client source address at any time, and a datagram    *)
(* from a source that has a session is forwarded on it without a new       *)
(* admission: it takes no connection id and no rate-window slot.           *)
C34_OneSessionPerSource ==
    /\ [](\A a \in FlowClients : Cardinality(ActiveOfSource(a)) <= 1)
    /\ [][\A p \in UdpPorts, a \in FlowClients, len \in UdpLens :
             (UdpRecvLen(p, a, len) /\ a \in DOMAIN clients[p]) =>
                 /\ udp_task'[p].pc = "forward"
                 /\ next_conn_id' = next_conn_id
                 /\ rate_counters' = rate_counters]_vars
    /\ [][\A p \in UdpPorts :
             UdpForwardLen(p) =>
                 /\ next_conn_id' = next_conn_id
                 /\ rate_counters' = rate_counters
                 /\ active' = active]_vars

(* two active records of one source address: the session task of the older *)
(* one has removed its entry and has not yet recorded the end              *)
C34_Witness ==
    \E p \in UdpPorts, a \in FlowClients :
        /\ Cardinality(ActiveOfSource(a)) = 2
        /\ a \in DOMAIN clients[p]
        /\ \E k \in DOMAIN sessions[p] : sessions[p][k].pc = "end"

(* what holds: the client map has one entry per source, the active records *)
(* of a source are that entry's and those of session tasks between their   *)
(* two last steps, and a datagram for a source that has an entry goes      *)
(* through no admission                                                    *)
C34_OneEntryPerSource ==
    /\ [](\A p \in UdpPorts, a \in FlowClients :
             ActiveOfSource(a) \subseteq
                 {clients[p][b].conn_id : b \in (DOMAIN clients[p]) \cap {a}}
                   \cup {sessions[p][k].entry.conn_id :
                            k \in {j \in DOMAIN sessions[p] : sessions[p][j].pc = "end"}})
    /\ [][\A p \in UdpPorts, a \in FlowClients, len \in UdpLens :
             (UdpRecvLen(p, a, len) /\ a \in DOMAIN clients[p]) =>
                 /\ udp_task'[p].pc = "forward"
                 /\ next_conn_id' = next_conn_id
                 /\ rate_counters' = rate_counters]_vars
    /\ [][\A p \in UdpPorts :
             UdpForwardLen(p) =>
                 /\ next_conn_id' = next_conn_id
                 /\ rate_counters' = rate_counters
                 /\ active' = active]_vars

(* the connection id is held by an entry of a client map, or by a listener *)
(* task that has admitted it and is setting up its upstream socket         *)
OwnedByEntry(c) ==
    \E p \in UdpPorts : \E a \in DOMAIN clients[p] : clients[p][a].conn_id = c

OwnedByListener(c) ==
    \E p \in UdpPorts : udp_task[p].pc = "upstream" /\ udp_task[p].conn_id = c

(* C35: every successful admission of a UDP listener ends with a session   *)
(* entry that owns the connection id or is finalized by                    *)
(* record_connection_end before the listener takes the next datagram: no   *)
(* active record is left that no session will finalize.                    *)
C35_AdmissionsOwned ==
    \A c \in DOMAIN active : OwnedByEntry(c) \/ OwnedByListener(c)

(* an active record that neither an entry nor a listener task holds, the   *)
(* listener gone and no session left                                       *)
C35_Witness ==
    \E c \in DOMAIN active :
        /\ ~OwnedByEntry(c)
        /\ ~OwnedByListener(c)
        /\ \A p \in UdpPorts : udp_task[p].pc = "none" /\ DOMAIN sessions[p] = {}

(* what holds: every step that takes the listener on from the upstream     *)
(* setup to its next await leaves the admitted id finalized or owned by an *)
(* entry, and the duplicate branch of the insertion is never taken (the    *)
(* source of an admission in progress has no entry)                        *)
C35_BranchesFinalize ==
    /\ [](\A p \in UdpPorts :
             udp_task[p].pc = "upstream" => udp_task[p].client_addr \notin DOMAIN clients[p])
    /\ [][\A p \in UdpPorts :
             (udp_task[p].pc = "upstream" /\ udp_task'[p].pc \in {"select", "forward"}) =>
                 \/ udp_task[p].conn_id \notin DOMAIN active'
                 \/ \E a \in DOMAIN clients'[p] :
                       clients'[p][a].conn_id = udp_task[p].conn_id]_vars

(* both ways on are taken: a failed upstream setup and an insertion        *)
C35_BothBranchesReached ==
    /\ \E i \in DOMAIN history : history[i].reason.msg \in UpstreamErrors
    /\ \E c \in DOMAIN active : OwnedByEntry(c)

(* the rule ids that have handles registered                               *)
ListeningIds == (DOMAIN listeners) \cup (DOMAIN udp_listeners)

(* C36: under any interleaving of create, enable or update with delete on  *)
(* the same rule, once all calls have returned every rule id that has      *)
(* handles in listeners or udp_listeners is the id of a rule in the rule   *)
(* list: no listener keeps running for a deleted rule.                     *)
C36_NoListenerForDeletedRule ==
    Quiescent => \A id \in ListeningIds : RulePosition(rules, id) # 0

(* every call has returned, the rule is deleted and a handle is registered *)
(* under its id                                                            *)
C36_Witness ==
    /\ Quiescent
    /\ \E s \in OpSlots : ops[s].kind = "delete" /\ ops[s].result = "ok"
    /\ \E s \in OpSlots : ops[s].kind = "enable" /\ ops[s].result = "ok"
    /\ rules = <<>>
    /\ ConcRuleId \in ListeningIds

(***************************************************************************)
(* SpecFinalize: SpecBoth's steps from a state file whose history holds    *)
(* one entry, and record_connection_end called for an id that has no       *)
(* active record: an id already finalized, the id of a blocked record, the *)
(* id of the loaded entry, or an id not yet handed out.  The program       *)
(* itself finalizes a connection from one place only (the handler task of  *)
(* a TCP connection, the session task or the listener task of a UDP one);  *)
(* the extra call is the environment's.                                    *)
(***************************************************************************)
InitFinalize == InitLoaded(<<BothRule>>, LoadedHistory(1), UdpRateLimit, {})

MaxFinalizeConnId == 4     \* SpecFinalize accepts connections while next_conn_id is at most this

FinalizeIds == 1..(MaxFinalizeConnId + 1)

AcceptFinalize(t, rule_id, client_ip) ==
    /\ next_conn_id <= MaxFinalizeConnId
    /\ rule_id \in DOMAIN listeners
    /\ \E i \in DOMAIN listeners[rule_id] :
          /\ HandleConnectionAdmission(t, rule_id, client_ip, listeners[rule_id][i].port)
          /\ UNCHANGED admit_log

(* record_connection_end (app.rs:1523-1557) for an id with no active record *)
RecordEndAgain(conn_id, bytes_up, bytes_down) ==
    /\ conn_id \notin DOMAIN active
    /\ record_connection_end(conn_id, bytes_up, bytes_down, NoReason)
    /\ UNCHANGED <<now, conns, listener_vars, ops, admit_log, udp_vars>>

NextFinalize ==
    \/ \E s \in OpSlots : StartupNext(s)
    \/ \E s \in OpSlots : StartRuleListeners(s)
    \/ \E s \in OpSlots : StartTcpListenerBind(s)
    \/ \E s \in OpSlots : StartTcpListenerPush(s)
    \/ \E s \in OpSlots : StartUdpListenerBind(s)
    \/ \E s \in OpSlots : StartUdpListenerPush(s)
    \/ \E s \in OpSlots : Respond(s)
    \/ \E t \in BothTasks, ip \in RelayClients : AcceptFinalize(t, BothRuleId, ip)
    \/ \E t \in BothTasks : HandleConnectionBlocked(t)
    \/ \E t \in BothTasks : HandleConnectionConnectFailed(t)
    \/ \E t \in BothTasks, b \in RelayedBytes : HandleConnectionRelayed(t, b[1], b[2])
    \/ \E p \in UdpPorts, a \in IdleClients : UdpRecvFrom(p, a)
    \/ \E p \in UdpPorts : UdpRegister(p)
    \/ \E p \in UdpPorts : UdpRecordBlocked(p)
    \/ \E p \in UdpPorts, msg \in UpstreamErrors : UdpUpstreamFailed(p, msg)
    \/ \E p \in UdpPorts : UdpSessionInserted(p)
    \/ \E p \in UdpPorts : UdpForward(p)
    \/ \E p \in UdpPorts, a \in IdleClients : SessionUpstreamError(p, a)
    \/ \E p \in UdpPorts, a \in IdleClients : SessionFinalize(p, a)
    \/ \E c \in FinalizeIds, b \in RelayedBytes : RecordEndAgain(c, b[1], b[2])

SpecFinalize == InitFinalize /\ [][NextFinalize]_vars

(* the positions of the history that carry the id                          *)
EntriesOf(c) == {i \in DOMAIN history : history[i].id = c}

(* C37: each connection id appears in at most one history entry and is     *)
(* never in the active set and in the history at the same time;            *)
(* record_connection_end for an id that is not, or no longer, in the       *)
(* active set appends nothing and changes no counter, so a connection is   *)
(* finalized at most once.                                                 *)
C37_FinalizedAtMostOnce ==
    /\ [](\A c \in FinalizeIds :
             /\ Cardinality(EntriesOf(c)) <= 1
             /\ ~(c \in DOMAIN active /\ EntriesOf(c) # {}))
    /\ [][\A c \in FinalizeIds, b \in RelayedBytes :
             RecordEndAgain(c, b[1], b[2]) => UNCHANGED registry_vars]_vars
    /\ [][\A c \in DOMAIN active \ DOMAIN active' :
             /\ Len(history') = Len(history) + 1
             /\ Appended.id = c
             /\ EntriesOf(c) = {}]_vars

(* C37 witness: a TCP connection and a UDP session have been finalized     *)
(* and a blocked record made, next to the loaded entry, while a connection *)
(* is active: the late call finds ids of every kind                        *)
C37_Witness ==
    /\ Len(history) = 4
    /\ \E i \in DOMAIN history : history[i].blocked
    /\ \E i \in DOMAIN history : ~history[i].blocked /\ history[i].id > 1
    /\ DOMAIN active # {}

(***************************************************************************)
(* C38, under SpecRoundTrip: the per-port maps after load_state and the    *)
(* add and remove handlers.                                                *)
(***************************************************************************)
NoEmptySet(m) == \A port \in DOMAIN m : m[port] # {}

PortReason(port) == Reason("Not in allowlist for port", port, "")

(* the step takes the last IP out of the port's allowlist                  *)
LastAllowRemoved(port, ip) ==
    /\ port \in DOMAIN allowlist_ports
    /\ allowlist_ports[port] = {ip}
    /\ ip \notin MapGet(allowlist_ports', port, {})

(* C38: after load_state and any sequence of add_allow, remove_allow,      *)
(* add_block, remove_block, add_geo_block and remove_geo_block, none of    *)
(* allowlist_ports, port_blocklist and geo_port_blocklist holds an empty   *)
(* set for any port; and a step that removes the last IP of a port's       *)
(* allowlist leaves the port without a key, so that check_allow rejects no *)
(* client on that port with the port's allowlist reason.                   *)
C38_NoEmptyPortSets ==
    /\ [](/\ NoEmptySet(allowlist_ports)
          /\ NoEmptySet(port_blocklist)
          /\ NoEmptySet(geo_port_blocklist))
    /\ [][\A port \in Ports, ip \in IPs :
             LastAllowRemoved(port, ip) =>
                /\ port \notin DOMAIN allowlist_ports'
                /\ \A c \in IPs : check_allow(c, port)'.reason # PortReason(port)
         ]_vars

(* C38 witness: the state was loaded from the file with per-port entries,  *)
(* the loaded allowlist of port 443 and the loaded blocklist of port 7000  *)
(* have been emptied by removals and their keys are gone, the loaded geo   *)
(* set of port 7000 is still there, another port's blocklist has been      *)
(* made since, and a client reaches port 443 past the allowlist checks.    *)
C38_Witness ==
    /\ rules # <<>>
    /\ PolicyPort \notin DOMAIN allowlist_ports
    /\ 7000 \notin DOMAIN port_blocklist
    /\ PolicyPort \in DOMAIN port_blocklist
    /\ 7000 \in DOMAIN geo_port_blocklist
    /\ ~allowlist_enabled
    /\ check_allow("10.0.0.2", PolicyPort).ok

(***************************************************************************)
(* C39, under SpecPolicy: what a rejected admission leaves behind.         *)
(***************************************************************************)
(* window `after` is window `before` with entries taken from its front     *)
IsTailOf(after, before) ==
    /\ Len(after) <= Len(before)
    /\ after = SubSeq(before, Len(before) - Len(after) + 1, Len(before))

RejectedNow(t) == Accepting(t) /\ conns'[t].pc = "rejected"

(* C39: a register_connection call that check_allow rejects, whatever the  *)
(* check that rejects it, leaves active and active_by_ip as they were and  *)
(* appends no timestamp to any rate window: the client's window afterwards *)
(* is its window before with expired entries pruned at most, and the other *)
(* clients' windows are unchanged, so a rejected attempt counts toward     *)
(* neither max_new_connections_per_minute nor the concurrency caps.        *)
C39_RejectionCountsNothing ==
    [][\A t \in Tasks :
          RejectedNow(t) =>
             /\ active' = active
             /\ active_by_ip' = active_by_ip
             /\ \A ip \in IPs :
                   IsTailOf(MapGet(rate_counters', ip, <<>>),
                            MapGet(rate_counters, ip, <<>>))
             /\ \A ip \in IPs \ {conns'[t].client_ip} :
                   MapGet(rate_counters', ip, <<>>) = MapGet(rate_counters, ip, <<>>)
      ]_vars

(* C39 witness: with one connection of the client active and its admission *)
(* in the client's window, a further attempt of the client has been        *)
(* rejected by the rate check; the window still holds the one timestamp    *)
(* and the client's active count is still one.                             *)
C39_Witness ==
    \E t \in Tasks :
        /\ conns[t].pc = "rejected"
        /\ conns[t].reason = Reason("Rate limit exceeded", 0, "")
        /\ Cardinality(DOMAIN active) = 1
        /\ MapGet(active_by_ip, PolicyIP, 0) = 1
        /\ Len(MapGet(rate_counters, PolicyIP, <<>>)) = 1

(* C39, the concurrency caps: an attempt has been rejected by one of the    *)
(* caps while the only admitted connection is active.                      *)
C39_CapRejectionReached ==
    \E t \in Tasks :
        /\ conns[t].pc = "rejected"
        /\ conns[t].reason \in {Reason("Too many total connections", 0, ""),
                                Reason("Too many active connections for IP", 0, "")}
        /\ Cardinality(DOMAIN active) = 1

(***************************************************************************)
(* C40, under SpecUdpFlow: the counters a finalized session reports.       *)
(***************************************************************************)
(* the history entries of finalized UDP sessions                           *)
FinalizedSessions ==
    {i \in DOMAIN history : ~history[i].blocked /\ history[i].id \in DOMAIN admit_log}

(* the bytes of the datagram the listener holds for the session of id c    *)
InHand(c) ==
    LET held == {p \in UdpPorts : udp_task[p].pc = "forward" /\ udp_task[p].seen_for = c}
    IN IF held = {} THEN 0 ELSE udp_task[CHOOSE p \in held : TRUE].len

(* C40: the history entry of a finalized UDP session has bytes_up equal to *)
(* the sum of the lengths of the datagrams received from the client while  *)
(* the session existed, the datagram that created it included, and         *)
(* bytes_down equal to the sum of the lengths of the replies sent back to  *)
(* the client.                                                             *)
C40_SessionByteCounts ==
    \A i \in FinalizedSessions :
        /\ history[i].bytes_up = admit_log[history[i].id].received
        /\ history[i].bytes_down = admit_log[history[i].id].replied

(* a finalized session that reports fewer bytes than were received for it: *)
(* a datagram was taken from the socket while the entry was in the client  *)
(* map and dropped because the entry was gone at the forwarding step       *)
C40_Witness ==
    \E i \in FinalizedSessions :
        /\ history[i].bytes_up < admit_log[history[i].id].received
        /\ admit_log[history[i].id].dropped > 0
        /\ history[i].bytes_down = admit_log[history[i].id].replied

(* what holds: bytes_down is the bytes of the replies sent back, and        *)
(* bytes_up is the bytes received less those of the datagrams dropped, or   *)
(* about to be dropped, at the forwarding step                             *)
C40_CountsForwarded ==
    \A i \in FinalizedSessions :
        LET c == history[i].id IN
        /\ history[i].bytes_down = admit_log[c].replied
        /\ history[i].bytes_up + admit_log[c].dropped + InHand(c) = admit_log[c].received

(* a session finalized with both counters above zero and nothing dropped   *)
C40_CountedReached ==
    \E i \in FinalizedSessions :
        /\ history[i].bytes_up = admit_log[history[i].id].received
        /\ history[i].bytes_up > 1
        /\ history[i].bytes_down > 0

====
